---- MODULE Spec2Model ----
(***************************************************************************)
(* A model of the pulse front end: the indentation-aware Tokenizer          *)
(* (src/src/lexer/tokenizer.cpp), the recursive-descent Parser              *)
(* (src/src/parser/parser.cpp) and the driver that chains them              *)
(* (src/src/main.cpp).                                                      *)
(*                                                                          *)
(* A source text is a sequence of one-character strings.  Cursors are       *)
(* 0-based as in the code, so source[current] of the code is                *)
(* source[current + 1] here.                                                *)
(***************************************************************************)
EXTENDS Integers, Sequences, FiniteSets, TLC

VARIABLES
    phase,          \* position of the driver: "lex", "lexed", "parse", "done"; "compile"
    source,         \* Tokenizer::source
    current,        \* Tokenizer::current
    start,          \* Tokenizer::start
    line,           \* Tokenizer::line
    column,         \* Tokenizer::column (signed representative of the size_t)
    indent_stack,   \* Tokenizer::indent_stack
    tokens,         \* the vector tokenize() fills, one nextToken() result per call
    lexError,       \* "" or the message of the exception nextToken() threw
    parser_tokens,  \* Parser::tokens
    parser_current, \* Parser::current
    declarations,   \* the vector declarations of Parser::program()
    statements,     \* the vector statements of Parser::program()
    ast,            \* what Parser::parse() returned: a Program or Null
    parseError,     \* NoError or the error Parser::error() raised
    program,        \* the Program handed to Compiler::compile, or Null
    compiling,      \* position in compile(): "idle", "start", "lower" or "done"
    module,         \* Compiler::module: its functions, printf and main first
    insertPoint,    \* the function whose entry block Compiler::builder inserts into
    currentFunction,\* Compiler::currentFunction (currentBlock is its entry block)
    variables,      \* Compiler::variables
    next_declaration, \* position of the loop over program->declarations
    next_statement, \* position of the loop over program->statements
    result,         \* "none", what compile() returned, or "aborted"
    compileError,   \* "" or the message compile() caught and printed
    assertions,     \* the LLVM build has assertions enabled
    opaque_pointers,\* the LLVM build has opaque pointers
    isRunning,      \* PulseDebugger::isRunning
    currentLine,    \* PulseDebugger::currentLine
    currentFile,    \* PulseDebugger::currentFile
    breakpoints,    \* PulseDebugger::breakpoints
    output          \* what the last debugger command wrote to std::cout

vars == <<phase, source, current, start, line, column, indent_stack, tokens,
          lexError, parser_tokens, parser_current, declarations, statements, ast,
          parseError, program, compiling, module, insertPoint, currentFunction,
          variables, next_declaration, next_statement, result, compileError,
          assertions, opaque_pointers, isRunning, currentLine, currentFile,
          breakpoints, output>>

lexVars == <<source, current, start, line, column, indent_stack, tokens, lexError>>

parseVars == <<parser_tokens, parser_current, declarations, statements, ast,
               parseError>>

compilerVars == <<program, compiling, module, insertPoint, currentFunction,
                  variables, next_declaration, next_statement, result,
                  compileError, assertions, opaque_pointers>>

debuggerVars == <<isRunning, currentLine, currentFile, breakpoints, output>>

-----------------------------------------------------------------------------
(* Bounds of the model and constants of the program.                        *)

\* Largest number of lines of an indentation-structured source.
MaxLines == 4

\* Largest length of a source drawn freely over FlatAlphabet.
MaxFlat == 3

\* The indentation unit: handleIndentation divides the space count by 4.
IndentUnit == 4

-----------------------------------------------------------------------------
(* Characters.                                                              *)

NUL == "NUL"

Letters ==
    {"a", "b", "c", "d", "e", "f", "g", "h", "i", "j", "k", "l", "m",
     "n", "o", "p", "q", "r", "s", "t", "u", "v", "w", "x", "y", "z",
     "A", "B", "C", "D", "E", "F", "G", "H", "I", "J", "K", "L", "M",
     "N", "O", "P", "Q", "R", "S", "T", "U", "V", "W", "X", "Y", "Z"}

Digits == {"0", "1", "2", "3", "4", "5", "6", "7", "8", "9"}

isspace(c) == c \in {" ", "\t", "\n", "\r", "\f"}

isdigit(c) == c \in Digits

isalpha(c) == c \in Letters

isalnum(c) == isalpha(c) \/ isdigit(c)

DigitValue(c) ==
    CASE c = "0" -> 0 [] c = "1" -> 1 [] c = "2" -> 2 [] c = "3" -> 3
      [] c = "4" -> 4 [] c = "5" -> 5 [] c = "6" -> 6 [] c = "7" -> 7
      [] c = "8" -> 8 [] c = "9" -> 9

-----------------------------------------------------------------------------
(* Tokens.                                                                  *)

NoValue == [t |-> "none", v |-> 0]

IntValue(n) == [t |-> "int", v |-> n]

StrValue(s) == [t |-> "str", v |-> s]

BoolValue(b) == [t |-> "bool", v |-> b]

\* A double is kept as the digits std::stod read: integer part and fraction.
FloatValue(ip, fp) == [t |-> "float", v |-> <<ip, fp>>]

Token(type, lexeme, value, ln, col) ==
    [type |-> type, lexeme |-> lexeme, value |-> value, line |-> ln, column |-> col]

\* Tokenizer::keywords
keywords ==
    {<<(<<"i", "f">>), "IF">>,
     <<(<<"e", "l", "i", "f">>), "ELIF">>,
     <<(<<"e", "l", "s", "e">>), "ELSE">>,
     <<(<<"w", "h", "i", "l", "e">>), "WHILE">>,
     <<(<<"f", "o", "r">>), "FOR">>,
     <<(<<"i", "n">>), "IN">>,
     <<(<<"d", "e", "f">>), "DEF">>,
     <<(<<"c", "l", "a", "s", "s">>), "CLASS">>,
     <<(<<"r", "e", "t", "u", "r", "n">>), "RETURN">>,
     <<(<<"i", "m", "p", "o", "r", "t">>), "IMPORT">>,
     <<(<<"a", "s">>), "AS">>,
     <<(<<"m", "a", "t", "c", "h">>), "MATCH">>,
     <<(<<"a", "s", "y", "n", "c">>), "ASYNC">>,
     <<(<<"a", "w", "a", "i", "t">>), "AWAIT">>,
     <<(<<"a", "n", "d">>), "AND">>,
     <<(<<"o", "r">>), "OR">>,
     <<(<<"n", "o", "t">>), "NOT">>}

-----------------------------------------------------------------------------
(* Tokenizer helpers.  A cursor state is [current, line, column].           *)

isAtEnd(src, cur) == cur >= Len(src)

peek(src, cur) == IF isAtEnd(src, cur) THEN NUL ELSE src[cur + 1]

peekNext(src, cur) == IF cur + 1 >= Len(src) THEN NUL ELSE src[cur + 2]

Cursor(cur, ln, col) == [current |-> cur, line |-> ln, column |-> col]

advance(src, c) ==
    IF isAtEnd(src, c.current) THEN c
    ELSE IF src[c.current + 1] = "\n"
         THEN Cursor(c.current + 1, c.line + 1, 0)
         ELSE Cursor(c.current + 1, c.line, c.column + 1)

\* match(expected) moves the cursor without looking for a newline.
matchChar(src, c, expected) ==
    IF isAtEnd(src, c.current) \/ src[c.current + 1] # expected
    THEN [matched |-> FALSE, c |-> c]
    ELSE [matched |-> TRUE, c |-> Cursor(c.current + 1, c.line, c.column + 1)]

RECURSIVE skipWhitespace(_, _)
skipWhitespace(src, c) ==
    IF ~isAtEnd(src, c.current) /\ isspace(peek(src, c.current))
       /\ peek(src, c.current) # "\n"
    THEN skipWhitespace(src, advance(src, c))
    ELSE c

RECURSIVE skipComment(_, _)
skipComment(src, c) ==
    IF ~isAtEnd(src, c.current) /\ peek(src, c.current) # "\n"
    THEN skipComment(src, advance(src, c))
    ELSE c

substr(src, pos, count) ==
    IF pos >= Len(src) \/ count <= 0 THEN <<>>
    ELSE SubSeq(src, pos + 1, IF pos + count > Len(src) THEN Len(src) ELSE pos + count)

\* A token whose lexeme stops one character short of the cursor.
makeTokenWithoutLast(src, st, c, type, value) ==
    Token(type, substr(src, st, c.current - st - 1), value, c.line,
          c.column - (c.current - st))

\* makeToken: the lexeme is source[start, current); the column is taken back
\* by the lexeme's length.
makeToken(src, st, c, type, value) ==
    Token(type, substr(src, st, c.current - st), value, c.line,
          c.column - (c.current - st))

\* The outcome of one tokenizer routine: it threw or it returned a token; c and
\* stack are the cursor and the indentation stack it left behind.
Returned(tok, c, stack) ==
    [threw |-> FALSE, msg |-> "", errline |-> 0, token |-> tok, c |-> c,
     stack |-> stack]

Threw(msg, c, stack) ==
    [threw |-> TRUE, msg |-> msg, errline |-> c.line,
     token |-> Token("NONE", <<>>, NoValue, 0, 0), c |-> c, stack |-> stack]

-----------------------------------------------------------------------------
(* Tokenizer::string, number, identifier.  Each starts with the cursor back  *)
(* at start (nextToken resets current and takes one off column).            *)

RECURSIVE stringBody(_, _, _)
stringBody(src, c, quote) ==
    IF ~isAtEnd(src, c.current) /\ peek(src, c.current) # quote
    THEN IF peek(src, c.current) = "\\"
         THEN LET c1 == advance(src, c)
              IN  stringBody(src,
                             IF ~isAtEnd(src, c1.current) THEN advance(src, c1) ELSE c1,
                             quote)
         ELSE stringBody(src, advance(src, c), quote)
    ELSE c

string(src, st, c, stack) ==
    LET quote == peek(src, c.current)
        c1 == stringBody(src, advance(src, c), quote)
    IN  IF isAtEnd(src, c1.current)
        THEN Threw("Unterminated string", c1, stack)
        ELSE LET c2 == advance(src, c1)
                 value == substr(src, st + 1, c2.current - st - 2)
             IN  Returned(makeToken(src, st, c2, "STRING", StrValue(value)), c2, stack)

RECURSIVE digits(_, _)
digits(src, c) ==
    IF ~isAtEnd(src, c.current) /\ isdigit(peek(src, c.current))
    THEN digits(src, advance(src, c))
    ELSE c

\* std::stoll on a run of decimal digits.
RECURSIVE stoll(_)
stoll(ds) ==
    IF ds = <<>> THEN 0
    ELSE 10 * stoll(SubSeq(ds, 1, Len(ds) - 1)) + DigitValue(ds[Len(ds)])

number(src, st, c, stack) ==
    LET c1 == digits(src, c)
    IN  IF ~isAtEnd(src, c1.current) /\ peek(src, c1.current) = "."
           /\ isdigit(peekNext(src, c1.current))
        THEN LET c2 == digits(src, advance(src, c1))
                 ip == substr(src, st, c1.current - st)
                 fp == substr(src, c1.current + 1, c2.current - c1.current - 1)
             IN  Returned(makeToken(src, st, c2, "FLOAT", FloatValue(stoll(ip), fp)),
                          c2, stack)
        ELSE Returned(makeToken(src, st, c1, "INTEGER",
                                IntValue(stoll(substr(src, st, c1.current - st)))),
                      c1, stack)

RECURSIVE identChars(_, _)
identChars(src, c) ==
    IF ~isAtEnd(src, c.current)
       /\ (isalnum(peek(src, c.current)) \/ peek(src, c.current) = "_")
    THEN identChars(src, advance(src, c))
    ELSE c

identifier(src, st, c, stack) ==
    LET c1 == identChars(src, c)
        text == substr(src, st, c1.current - st)
        kw == {k \in keywords : k[1] = text}
    IN  IF kw # {}
        THEN Returned(makeToken(src, st, c1, (CHOOSE k \in kw : TRUE)[2], NoValue),
                      c1, stack)
        ELSE IF text = <<"T", "r", "u", "e">>
        THEN Returned(makeToken(src, st, c1, "BOOLEAN", BoolValue(TRUE)), c1, stack)
        ELSE IF text = <<"F", "a", "l", "s", "e">>
        THEN Returned(makeToken(src, st, c1, "BOOLEAN", BoolValue(FALSE)), c1, stack)
        ELSE IF text = <<"N", "o", "n", "e">>
        THEN Returned(makeToken(src, st, c1, "NONE", NoValue), c1, stack)
        ELSE Returned(makeToken(src, st, c1, "IDENTIFIER", NoValue), c1, stack)

-----------------------------------------------------------------------------
(* Tokenizer::handleIndentation, called with the cursor just past a newline. *)

back(stack) == stack[Len(stack)]

pop_back(stack) == SubSeq(stack, 1, Len(stack) - 1)

\* The number of ' ' characters from position pos on.
RECURSIVE countSpaces(_, _)
countSpaces(src, pos) ==
    IF pos < Len(src) /\ src[pos + 1] = " " THEN 1 + countSpaces(src, pos + 1) ELSE 0

\* The pop loop with >= for >: it also pops the level the line lands on.
RECURSIVE popAboveOrEqual(_, _)
popAboveOrEqual(stack, spaces) ==
    IF stack # <<>> /\ back(stack) >= spaces
    THEN popAboveOrEqual(pop_back(stack), spaces)
    ELSE stack

\* while (!indent_stack.empty() && indent_stack.back() > spaces) pop_back
RECURSIVE popAbove(_, _)
popAbove(stack, spaces) ==
    IF stack # <<>> /\ back(stack) > spaces
    THEN popAbove(pop_back(stack), spaces)
    ELSE stack

\* What the DEDENT branch hands back after popping: the vector dedent_tokens
\* holds one DEDENT per popped level, and dedent_tokens[0] alone is returned.
dedentResult(c, stack, popped) ==
    Returned(Token("DEDENT", <<>>, NoValue, c.line, c.column), c, popped)

\* An indentation step that leaves the newline unread: a NEWLINE token with
\* the cursor back on the newline character.
handleIndentationUnread(src, c, stack) ==
    Returned(Token("NEWLINE", <<>>, NoValue, c.line, c.column),
             Cursor(c.current - 1, c.line - 1, c.column), stack)

\* An indentation step that enters one level per INDENT: it pushes the level
\* after the top instead of the level of the line.
handleIndentationOneLevel(src, c, stack) ==
    LET indent_level == countSpaces(src, c.current)
        spaces == indent_level \div IndentUnit
    IN  IF indent_level % IndentUnit # 0
        THEN Threw("Invalid indentation", c, stack)
        ELSE IF stack = <<>> \/ spaces > back(stack)
        THEN Returned(Token("INDENT", <<>>, NoValue, c.line, c.column), c,
                      Append(stack, IF stack = <<>> THEN 0 ELSE back(stack) + 1))
        ELSE IF spaces < back(stack)
        THEN LET popped == popAbove(stack, spaces)
             IN  IF popped = <<>> \/ back(popped) # spaces
                 THEN Threw("Invalid indentation", c, popped)
                 ELSE dedentResult(c, stack, popped)
        ELSE Returned(Token("NEWLINE", <<>>, NoValue, c.line, c.column), c, stack)

\* An indentation step that takes any width: no test of the width against
\* the indentation unit.
handleIndentationAnyWidth(src, c, stack) ==
    LET spaces == countSpaces(src, c.current) \div IndentUnit
    IN  IF stack = <<>> \/ spaces > back(stack)
        THEN Returned(Token("INDENT", <<>>, NoValue, c.line, c.column), c,
                      Append(stack, spaces))
        ELSE IF spaces < back(stack)
        THEN LET popped == popAbove(stack, spaces)
             IN  IF popped = <<>> \/ back(popped) # spaces
                 THEN Threw("Invalid indentation", c, popped)
                 ELSE dedentResult(c, stack, popped)
        ELSE Returned(Token("NEWLINE", <<>>, NoValue, c.line, c.column), c, stack)

\* An indentation step that pops to wherever the loop stops: no test that the
\* line lands on a level of the stack.
handleIndentationNoLanding(src, c, stack) ==
    LET indent_level == countSpaces(src, c.current)
        spaces == indent_level \div IndentUnit
    IN  IF indent_level % IndentUnit # 0
        THEN Threw("Invalid indentation", c, stack)
        ELSE IF stack = <<>> \/ spaces > back(stack)
        THEN Returned(Token("INDENT", <<>>, NoValue, c.line, c.column), c,
                      Append(stack, spaces))
        ELSE IF spaces < back(stack)
        THEN dedentResult(c, stack, popAbove(stack, spaces))
        ELSE Returned(Token("NEWLINE", <<>>, NoValue, c.line, c.column), c, stack)

handleIndentation(src, c, stack) ==
    LET indent_level == countSpaces(src, c.current)
        spaces == indent_level \div IndentUnit
    IN  IF indent_level % IndentUnit # 0
        THEN Threw("Invalid indentation", c, stack)
        ELSE IF stack = <<>> \/ spaces > back(stack)
        THEN Returned(Token("INDENT", <<>>, NoValue, c.line, c.column), c,
                      Append(stack, spaces))
        ELSE IF spaces < back(stack)
        THEN LET popped == popAbove(stack, spaces)
             IN  IF popped = <<>> \/ back(popped) # spaces
                 THEN Threw("Invalid indentation", c, popped)
                 ELSE dedentResult(c, stack, popped)
        ELSE Returned(Token("NEWLINE", <<>>, NoValue, c.line, c.column), c, stack)

-----------------------------------------------------------------------------
(* Tokenizer::nextToken.                                                    *)

\* case c of the operator switch, with the cursor c2 just past the character.
operatorToken(src, st, ch, c2, stack) ==
    LET one(type) == Returned(makeToken(src, st, c2, type, NoValue), c2, stack)
        two(second, type2, type1) ==
            LET m == matchChar(src, c2, second)
            IN  IF m.matched
                THEN Returned(makeToken(src, st, m.c, type2, NoValue), m.c, stack)
                ELSE IF type1 = "" THEN Threw("Unexpected character", c2, stack)
                ELSE one(type1)
    IN  CASE ch = "(" -> one("LPAREN")
          [] ch = ")" -> one("RPAREN")
          [] ch = "[" -> one("LBRACKET")
          [] ch = "]" -> one("RBRACKET")
          [] ch = "{" -> one("LBRACE")
          [] ch = "}" -> one("RBRACE")
          [] ch = "," -> one("COMMA")
          [] ch = "." -> one("DOT")
          [] ch = ":" -> one("COLON")
          [] ch = "=" -> two("=", "EQUAL", "ASSIGN")
          [] ch = "!" -> two("=", "NOT_EQUAL", "")
          [] ch = "<" -> two("=", "LESS_EQUAL", "LESS")
          [] ch = ">" -> two("=", "GREATER_EQUAL", "GREATER")
          [] ch = "+" -> one("PLUS")
          [] ch = "-" -> one("MINUS")
          [] ch = "*" -> two("*", "POWER", "MULTIPLY")
          [] ch = "/" -> two("/", "FLOOR_DIVIDE", "DIVIDE")
          [] ch = "%" -> one("MODULO")
          [] OTHER -> Threw("Unexpected character", c2, stack)

\* One call of nextToken from cursor c0 with start st0: the outcome and the
\* value of start it leaves.
nextToken(src, c0, st0, stack) ==
    LET c1 == skipWhitespace(src, c0)
    IN  IF isAtEnd(src, c1.current)
        THEN [r |-> Returned(Token("EOF_TOKEN", <<>>, NoValue, c1.line, c1.column),
                             c1, stack),
              start |-> st0]
        ELSE LET st == c1.current
                 ch == src[st + 1]
                 c2 == advance(src, c1)
                 reset == Cursor(st, c2.line, c2.column - 1)
             IN  [r |-> IF ch = "\n" THEN handleIndentation(src, c2, stack)
                        ELSE IF ch = "#"
                        THEN LET c3 == skipComment(src, c2)
                             IN  Returned(makeToken(src, st, c3, "COMMENT", NoValue),
                                          c3, stack)
                        ELSE IF ch = "\"" \/ ch = "'"
                        THEN string(src, st, reset, stack)
                        ELSE IF isdigit(ch) THEN number(src, st, reset, stack)
                        ELSE IF isalpha(ch) \/ ch = "_"
                        THEN identifier(src, st, reset, stack)
                        ELSE operatorToken(src, st, ch, c2, stack),
                  start |-> st]

-----------------------------------------------------------------------------
(* AST nodes (include/parser/ast.hpp).  Null is the null pointer.           *)

Null == [kind |-> "Null"]

LiteralExpression(value) == [kind |-> "Literal", value |-> value]

IdentifierExpression(name) == [kind |-> "Identifier", name |-> name]

BinaryExpression(op, left, right) ==
    [kind |-> "Binary", op |-> op, left |-> left, right |-> right]

UnaryExpression(op, operand) == [kind |-> "Unary", op |-> op, operand |-> operand]

CallExpression(callee, arguments) ==
    [kind |-> "Call", callee |-> callee, arguments |-> arguments]

AttributeExpression(object, attribute) ==
    [kind |-> "Attribute", object |-> object, attribute |-> attribute]

SubscriptExpression(object, index) ==
    [kind |-> "Subscript", object |-> object, index |-> index]

ListExpression(elements) == [kind |-> "List", elements |-> elements]

DictExpression(pairs) == [kind |-> "Dict", pairs |-> pairs]

TupleExpression(elements) == [kind |-> "Tuple", elements |-> elements]

AssignmentStatement(name, value) ==
    [kind |-> "Assignment", name |-> name, value |-> value]

ExpressionStatement(expr) == [kind |-> "ExpressionStatement", expression |-> expr]

ReturnStatement(value) == [kind |-> "Return", value |-> value]

Branch(condition, body) == [condition |-> condition, body |-> body]

IfStatement(branches, else_body) ==
    [kind |-> "If", branches |-> branches, else_body |-> else_body]

WhileStatement(condition, body) ==
    [kind |-> "While", condition |-> condition, body |-> body]

ForStatement(variable, iterable, body) ==
    [kind |-> "For", variable |-> variable, iterable |-> iterable, body |-> body]

MatchStatement(value, cases) == [kind |-> "Match", value |-> value, cases |-> cases]

FunctionDeclaration(name, parameters, body) ==
    [kind |-> "Function", name |-> name, parameters |-> parameters, body |-> body,
     is_async |-> FALSE]

ClassDeclaration(name, base_class, members) ==
    [kind |-> "Class", name |-> name, base_class |-> base_class, members |-> members]

ImportDeclaration(module_name, alias) ==
    [kind |-> "Import", module |-> module_name, alias |-> alias]

Program(decls, stmts) ==
    [kind |-> "Program", declarations |-> decls, statements |-> stmts]

-----------------------------------------------------------------------------
(* Parser primitives.  cur is Parser::current; a routine's outcome is the    *)
(* node it returned and the cursor it left, or the error it threw.          *)

NoError == [message |-> "", line |-> 0, column |-> 0]

pIsAtEnd(toks, cur) == cur >= Len(toks)

pPeek(toks, cur) == IF pIsAtEnd(toks, cur) THEN toks[Len(toks)] ELSE toks[cur + 1]

check(toks, cur, type) == ~pIsAtEnd(toks, cur) /\ pPeek(toks, cur).type = type

Ok(node, cur) == [ok |-> TRUE, node |-> node, cur |-> cur, err |-> NoError]

\* An error raised one token late: the cursor has advanced past the offending
\* token, whose position the exception still carries.
errorAfterAdvance(toks, cur, message) ==
    [ok |-> FALSE, node |-> Null, cur |-> cur + 1,
     err |-> [message |-> message, line |-> pPeek(toks, cur).line,
              column |-> pPeek(toks, cur).column]]

\* Parser::error(peek(), message): the exception carries the position of the
\* current token; the cursor stays where it is.
error(toks, cur, message) ==
    [ok |-> FALSE, node |-> Null, cur |-> cur,
     err |-> [message |-> message, line |-> pPeek(toks, cur).line,
              column |-> pPeek(toks, cur).column]]

\* Parser::consume
consume(toks, cur, type, message) ==
    IF check(toks, cur, type) THEN Ok(Null, cur + 1) ELSE error(toks, cur, message)

isNull(node) == node.kind = "Null"

-----------------------------------------------------------------------------------------------------------------------------------------------------
(* Expression grammar (parser.cpp lines 105-336 and 487-531).               *)

\* Sequencing under exceptions: when routine outcome r is an error it is the
\* outcome of the whole; otherwise the rest K goes on from r.
Bind(r, K(_)) == IF r.ok THEN K(r) ELSE r

RECURSIVE expression(_, _), logicalOrLoop(_, _, _, _), logicalAndLoop(_, _, _, _),
          equalityLoop(_, _, _, _), comparisonLoop(_, _, _, _),
          termLoop(_, _, _, _), factorLoop(_, _, _, _), powerLoop(_, _, _, _),
          unary(_, _), primary(_, _), primaryRest(_, _),
          call(_, _), callLoop(_, _, _), finishCall(_, _, _),
          elementsLoop(_, _, _), listExpression(_, _), dictExpression(_, _),
          pairsLoop(_, _, _), tupleExpression(_, _)

\* Each binary level is "expr = next(); while (match(op)) { right = next();
\* expr = Binary(op, expr, right); }".  Its loop is entered at an operand, with
\* the expression built so far (Null at the first operand) and the operator
\* matched just before the operand; it parses the operand, folds it in on the
\* right of expr and goes round again when an operator of the level follows.
fold(left, op, right) ==
    IF isNull(left) THEN right ELSE BinaryExpression(op, left, right)

powerLoop(toks, left, op, cur) ==
    Bind(unary(toks, cur), LAMBDA r :
        IF check(toks, r.cur, "POWER")
        THEN powerLoop(toks, fold(left, op, r.node), "POWER", r.cur + 1)
        ELSE Ok(fold(left, op, r.node), r.cur))

power(toks, cur) == powerLoop(toks, Null, "", cur)

factorOperator(type) ==
    CASE type = "MULTIPLY" -> "MULTIPLY"
      [] type = "DIVIDE" -> "DIVIDE"
      [] type = "FLOOR_DIVIDE" -> "FLOOR_DIVIDE"
      [] type = "MODULO" -> "MODULO"
      [] OTHER -> "MULTIPLY"

factorLoop(toks, left, op, cur) ==
    Bind(power(toks, cur), LAMBDA r :
        IF check(toks, r.cur, "MULTIPLY") \/ check(toks, r.cur, "DIVIDE")
           \/ check(toks, r.cur, "FLOOR_DIVIDE") \/ check(toks, r.cur, "MODULO")
        THEN factorLoop(toks, fold(left, op, r.node),
                        factorOperator(toks[r.cur + 1].type), r.cur + 1)
        ELSE Ok(fold(left, op, r.node), r.cur))

\* The multiplicative level without its loop: a lone power().
factorWithoutLoop(toks, cur) == power(toks, cur)

factor(toks, cur) == factorLoop(toks, Null, "", cur)

\* The additive level with one operator for both tokens.
termOperatorAlwaysAdd(type) == "ADD"

termOperator(type) == IF type = "PLUS" THEN "ADD" ELSE "SUBTRACT"

termLoop(toks, left, op, cur) ==
    Bind(factor(toks, cur), LAMBDA r :
        IF check(toks, r.cur, "PLUS") \/ check(toks, r.cur, "MINUS")
        THEN termLoop(toks, fold(left, op, r.node),
                      termOperator(toks[r.cur + 1].type), r.cur + 1)
        ELSE Ok(fold(left, op, r.node), r.cur))

term(toks, cur) == termLoop(toks, Null, "", cur)

comparisonOperator(type) ==
    CASE type = "LESS" -> "LESS"
      [] type = "LESS_EQUAL" -> "LESS_EQUAL"
      [] type = "GREATER" -> "GREATER"
      [] type = "GREATER_EQUAL" -> "GREATER_EQUAL"
      [] OTHER -> "LESS"

comparisonLoop(toks, left, op, cur) ==
    Bind(term(toks, cur), LAMBDA r :
        IF check(toks, r.cur, "LESS") \/ check(toks, r.cur, "LESS_EQUAL")
           \/ check(toks, r.cur, "GREATER") \/ check(toks, r.cur, "GREATER_EQUAL")
        THEN comparisonLoop(toks, fold(left, op, r.node),
                            comparisonOperator(toks[r.cur + 1].type), r.cur + 1)
        ELSE Ok(fold(left, op, r.node), r.cur))

comparison(toks, cur) == comparisonLoop(toks, Null, "", cur)

equalityOperator(type) == IF type = "EQUAL" THEN "EQUAL" ELSE "NOT_EQUAL"

equalityLoop(toks, left, op, cur) ==
    Bind(comparison(toks, cur), LAMBDA r :
        IF check(toks, r.cur, "EQUAL") \/ check(toks, r.cur, "NOT_EQUAL")
        THEN equalityLoop(toks, fold(left, op, r.node),
                          equalityOperator(toks[r.cur + 1].type), r.cur + 1)
        ELSE Ok(fold(left, op, r.node), r.cur))

equality(toks, cur) == equalityLoop(toks, Null, "", cur)

logicalAndLoop(toks, left, op, cur) ==
    Bind(equality(toks, cur), LAMBDA r :
        IF check(toks, r.cur, "AND")
        THEN logicalAndLoop(toks, fold(left, op, r.node), "AND", r.cur + 1)
        ELSE Ok(fold(left, op, r.node), r.cur))

logicalAnd(toks, cur) == logicalAndLoop(toks, Null, "", cur)

logicalOrLoop(toks, left, op, cur) ==
    Bind(logicalAnd(toks, cur), LAMBDA r :
        IF check(toks, r.cur, "OR")
        THEN logicalOrLoop(toks, fold(left, op, r.node), "OR", r.cur + 1)
        ELSE Ok(fold(left, op, r.node), r.cur))

logicalOr(toks, cur) == logicalOrLoop(toks, Null, "", cur)

expression(toks, cur) == logicalOr(toks, cur)

unaryOperator(type) == IF type = "MINUS" THEN "MINUS" ELSE "NOT"

\* The operand of a prefix operator is unary(); anything else goes to
\* primary(), not to call().
unary(toks, cur) ==
    IF check(toks, cur, "MINUS") \/ check(toks, cur, "NOT")
    THEN Bind(unary(toks, cur + 1), LAMBDA r :
             Ok(UnaryExpression(unaryOperator(toks[cur + 1].type), r.node), r.cur))
    ELSE primary(toks, cur)

\* The cursor after "if (match(type)) { if (token holds a value) return ...; }"
\* did not return: the matched token stays consumed.
pastValueless(toks, cur, type) == IF check(toks, cur, type) THEN cur + 1 ELSE cur

holds(toks, cur, type, held) == check(toks, cur, type) /\ toks[cur + 1].value.t = held

primary(toks, cur) ==
    IF check(toks, cur, "FALSE") THEN Ok(LiteralExpression(BoolValue(FALSE)), cur + 1)
    ELSE IF check(toks, cur, "TRUE")
    THEN Ok(LiteralExpression(BoolValue(TRUE)), cur + 1)
    ELSE IF check(toks, cur, "NONE") THEN Ok(LiteralExpression(NoValue), cur + 1)
    ELSE IF holds(toks, cur, "INTEGER", "int")
    THEN Ok(LiteralExpression(toks[cur + 1].value), cur + 1)
    ELSE LET c1 == pastValueless(toks, cur, "INTEGER")
         IN  IF holds(toks, c1, "FLOAT", "float")
             THEN Ok(LiteralExpression(toks[c1 + 1].value), c1 + 1)
             ELSE LET c2 == pastValueless(toks, c1, "FLOAT")
                  IN  IF holds(toks, c2, "STRING", "str")
                      THEN Ok(LiteralExpression(toks[c2 + 1].value), c2 + 1)
                      ELSE primaryRest(toks, pastValueless(toks, c2, "STRING"))

primaryRest(toks, cur) ==
    IF check(toks, cur, "IDENTIFIER")
    THEN Ok(IdentifierExpression(toks[cur + 1].lexeme), cur + 1)
    ELSE IF check(toks, cur, "LPAREN")
    THEN Bind(expression(toks, cur + 1), LAMBDA e :
         Bind(consume(toks, e.cur, "RPAREN", "Expect ')' after expression."), LAMBDA c :
             Ok(e.node, c.cur)))
    ELSE IF check(toks, cur, "LBRACKET") THEN listExpression(toks, cur + 1)
    ELSE IF check(toks, cur, "LBRACE") THEN dictExpression(toks, cur + 1)
    ELSE error(toks, cur, "Expect expression.")

\* Parser::call: defined, and called from nowhere.
call(toks, cur) == Bind(primary(toks, cur), LAMBDA e : callLoop(toks, e.node, e.cur))

callLoop(toks, expr, cur) ==
    IF check(toks, cur, "LPAREN")
    THEN Bind(finishCall(toks, expr, cur + 1), LAMBDA f : callLoop(toks, f.node, f.cur))
    ELSE IF check(toks, cur, "DOT")
    THEN Bind(consume(toks, cur + 1, "IDENTIFIER", "Expect property name after '.'."),
              LAMBDA c :
                  callLoop(toks, AttributeExpression(expr, toks[c.cur].lexeme), c.cur))
    ELSE IF check(toks, cur, "LBRACKET")
    THEN Bind(expression(toks, cur + 1), LAMBDA i :
         Bind(consume(toks, i.cur, "RBRACKET", "Expect ']' after index."), LAMBDA c :
             callLoop(toks, SubscriptExpression(expr, i.node), c.cur)))
    ELSE Ok(expr, cur)

\* do { elements.push_back(expression()); } while (match(COMMA));
elementsLoop(toks, elements, cur) ==
    Bind(expression(toks, cur), LAMBDA e :
        IF check(toks, e.cur, "COMMA")
        THEN elementsLoop(toks, Append(elements, e.node), e.cur + 1)
        ELSE Ok(Append(elements, e.node), e.cur))

\* if (!check(closing)) do { ... } while (match(COMMA));
elementsUntil(toks, cur, closing) ==
    IF check(toks, cur, closing) THEN Ok(<<>>, cur) ELSE elementsLoop(toks, <<>>, cur)

finishCall(toks, callee, cur) ==
    Bind(elementsUntil(toks, cur, "RPAREN"), LAMBDA args :
    Bind(consume(toks, args.cur, "RPAREN", "Expect ')' after arguments."), LAMBDA c :
        Ok(CallExpression(callee, args.node), c.cur)))

listExpression(toks, cur) ==
    Bind(elementsUntil(toks, cur, "RBRACKET"), LAMBDA els :
    Bind(consume(toks, els.cur, "RBRACKET", "Expect ']' after list elements."), LAMBDA c :
        Ok(ListExpression(els.node), c.cur)))

pairsLoop(toks, pairs, cur) ==
    Bind(expression(toks, cur), LAMBDA k :
    Bind(consume(toks, k.cur, "COLON", "Expect ':' after key."), LAMBDA c :
    Bind(expression(toks, c.cur), LAMBDA v :
        IF check(toks, v.cur, "COMMA")
        THEN pairsLoop(toks, Append(pairs, [key |-> k.node, value |-> v.node]), v.cur + 1)
        ELSE Ok(Append(pairs, [key |-> k.node, value |-> v.node]), v.cur))))

dictExpression(toks, cur) ==
    Bind(IF check(toks, cur, "RBRACE") THEN Ok(<<>>, cur) ELSE pairsLoop(toks, <<>>, cur),
         LAMBDA ps :
    Bind(consume(toks, ps.cur, "RBRACE", "Expect '}' after dictionary pairs."), LAMBDA c :
        Ok(DictExpression(ps.node), c.cur)))

tupleExpression(toks, cur) ==
    Bind(elementsUntil(toks, cur, "RPAREN"), LAMBDA els :
    Bind(consume(toks, els.cur, "RPAREN", "Expect ')' after tuple elements."), LAMBDA c :
        Ok(TupleExpression(els.node), c.cur)))

-----------------------------------------------------------------------------
(* Statement and declaration grammar (parser.cpp lines 51-103, 339-485 and   *)
(* 533-545).  Each routine is entered with its keyword already matched.      *)

RECURSIVE statement(_, _), block(_, _), blockLoop(_, _, _), ifStatement(_, _),
          elifLoop(_, _, _), whileStatement(_, _), forStatement(_, _),
          matchStatement(_, _), casesLoop(_, _, _, _)

\* while (!isAtEnd() && !check(DEDENT)) statements.push_back(statement());
\* statement() never returns a null pointer, so the break is never taken.
blockLoop(toks, body, cur) ==
    IF ~pIsAtEnd(toks, cur) /\ ~check(toks, cur, "DEDENT")
    THEN Bind(statement(toks, cur), LAMBDA s :
             blockLoop(toks, Append(body, s.node), s.cur))
    ELSE Ok(body, cur)

\* Parser::block starts its loop at the current token, whatever it is, and
\* leaves the cursor on the DEDENT that stopped it.
block(toks, cur) == blockLoop(toks, <<>>, cur)

\* A condition and its body: expression() then block().
branch(toks, cur) ==
    Bind(expression(toks, cur), LAMBDA e :
    Bind(block(toks, e.cur), LAMBDA b : Ok(Branch(e.node, b.node), b.cur)))

\* consume(COLON) comes first, before the condition is parsed.
colonBranch(toks, cur, message) ==
    Bind(consume(toks, cur, "COLON", message), LAMBDA c : branch(toks, c.cur))

elifLoop(toks, branches, cur) ==
    IF check(toks, cur, "ELIF")
    THEN Bind(colonBranch(toks, cur + 1, "Expect ':' after elif condition."), LAMBDA b :
             elifLoop(toks, Append(branches, b.node), b.cur))
    ELSE Ok(branches, cur)

elseBranch(toks, cur) ==
    IF check(toks, cur, "ELSE")
    THEN Bind(consume(toks, cur + 1, "COLON", "Expect ':' after else."), LAMBDA c :
             block(toks, c.cur))
    ELSE Ok(<<>>, cur)

ifStatement(toks, cur) ==
    Bind(colonBranch(toks, cur, "Expect ':' after if condition."), LAMBDA first :
    Bind(elifLoop(toks, <<first.node>>, first.cur), LAMBDA branches :
    Bind(elseBranch(toks, branches.cur), LAMBDA else_branch :
        Ok(IfStatement(branches.node, else_branch.node), else_branch.cur))))

whileStatement(toks, cur) ==
    Bind(expression(toks, cur), LAMBDA condition :
    Bind(consume(toks, condition.cur, "COLON", "Expect ':' after while condition."),
         LAMBDA c :
    Bind(block(toks, c.cur), LAMBDA body :
        Ok(WhileStatement(condition.node, body.node), body.cur))))

forStatement(toks, cur) ==
    Bind(consume(toks, cur, "IDENTIFIER", "Expect variable name after 'for'."), LAMBDA v :
    Bind(consume(toks, v.cur, "IN", "Expect 'in' after variable name."), LAMBDA in :
    Bind(expression(toks, in.cur), LAMBDA iterable :
    Bind(consume(toks, iterable.cur, "COLON", "Expect ':' after iterable."), LAMBDA c :
    Bind(block(toks, c.cur), LAMBDA body :
        Ok(ForStatement(toks[v.cur].lexeme, iterable.node, body.node), body.cur))))))

casesLoop(toks, value, cases, cur) ==
    IF ~pIsAtEnd(toks, cur) /\ ~check(toks, cur, "DEDENT")
    THEN Bind(expression(toks, cur), LAMBDA pattern :
         Bind(consume(toks, pattern.cur, "COLON", "Expect ':' after pattern."), LAMBDA c :
         Bind(block(toks, c.cur), LAMBDA body :
             casesLoop(toks, value, Append(cases, <<pattern.node, body.node>>),
                       body.cur))))
    ELSE Ok(MatchStatement(value, cases), cur)

matchStatement(toks, cur) ==
    Bind(expression(toks, cur), LAMBDA value :
    Bind(consume(toks, value.cur, "COLON", "Expect ':' after match value."), LAMBDA c :
        casesLoop(toks, value.node, <<>>, c.cur)))

returnStatement(toks, cur) ==
    IF ~check(toks, cur, "NEWLINE") /\ ~check(toks, cur, "DEDENT")
    THEN Bind(expression(toks, cur), LAMBDA value :
             Ok(ReturnStatement(value.node), value.cur))
    ELSE Ok(ReturnStatement(Null), cur)

assignmentStatement(toks, cur) ==
    Bind(consume(toks, cur, "IDENTIFIER", "Expect variable name."), LAMBDA n :
    Bind(consume(toks, n.cur, "ASSIGN", "Expect '=' after variable name."), LAMBDA a :
    Bind(expression(toks, a.cur), LAMBDA value :
        Ok(AssignmentStatement(toks[n.cur].lexeme, value.node), value.cur))))

expressionStatement(toks, cur) ==
    Bind(expression(toks, cur), LAMBDA expr : Ok(ExpressionStatement(expr.node), expr.cur))

\* The cursor after the lookahead's advance(): it does not move at the end.
lookahead(toks, cur) == IF pIsAtEnd(toks, cur) THEN cur ELSE cur + 1

\* statement() without the reset of the lookahead: an expression statement
\* starts after the identifier the lookahead consumed.
statementWithoutReset(toks, cur) ==
    IF check(toks, cur, "IF") THEN ifStatement(toks, cur + 1)
    ELSE IF check(toks, cur, "WHILE") THEN whileStatement(toks, cur + 1)
    ELSE IF check(toks, cur, "FOR") THEN forStatement(toks, cur + 1)
    ELSE IF check(toks, cur, "MATCH") THEN matchStatement(toks, cur + 1)
    ELSE IF check(toks, cur, "RETURN") THEN returnStatement(toks, cur + 1)
    ELSE IF pPeek(toks, cur).type = "IDENTIFIER"
    THEN IF pPeek(toks, lookahead(toks, cur)).type = "ASSIGN"
         THEN assignmentStatement(toks, cur)
         ELSE expressionStatement(toks, lookahead(toks, cur))
    ELSE expressionStatement(toks, cur)

statement(toks, cur) ==
    IF check(toks, cur, "IF") THEN ifStatement(toks, cur + 1)
    ELSE IF check(toks, cur, "WHILE") THEN whileStatement(toks, cur + 1)
    ELSE IF check(toks, cur, "FOR") THEN forStatement(toks, cur + 1)
    ELSE IF check(toks, cur, "MATCH") THEN matchStatement(toks, cur + 1)
    ELSE IF check(toks, cur, "RETURN") THEN returnStatement(toks, cur + 1)
    ELSE IF pPeek(toks, cur).type = "IDENTIFIER"
            /\ pPeek(toks, lookahead(toks, cur)).type = "ASSIGN"
    THEN assignmentStatement(toks, cur)
    ELSE expressionStatement(toks, cur)

RECURSIVE declaration(_, _), membersLoop(_, _, _)

importDeclaration(toks, cur) ==
    Bind(consume(toks, cur, "IDENTIFIER", "Expect module name after 'import'."), LAMBDA m :
        IF check(toks, m.cur, "AS")
        THEN Bind(consume(toks, m.cur + 1, "IDENTIFIER", "Expect alias name after 'as'."),
                  LAMBDA a :
                      Ok(ImportDeclaration(toks[m.cur].lexeme, toks[a.cur].lexeme), a.cur))
        ELSE Ok(ImportDeclaration(toks[m.cur].lexeme, <<>>), m.cur))

\* do { consume(IDENTIFIER); parameters.push_back(lexeme); } while (match(COMMA));
RECURSIVE parametersLoop(_, _, _)
parametersLoop(toks, parameters, cur) ==
    Bind(consume(toks, cur, "IDENTIFIER", "Expect parameter name."), LAMBDA p :
        IF check(toks, p.cur, "COMMA")
        THEN parametersLoop(toks, Append(parameters, toks[p.cur].lexeme), p.cur + 1)
        ELSE Ok(Append(parameters, toks[p.cur].lexeme), p.cur))

\* After the ':' the body is block(), entered at whatever token follows.
functionDeclaration(toks, cur) ==
    Bind(consume(toks, cur, "IDENTIFIER", "Expect function name."), LAMBDA n :
    Bind(consume(toks, n.cur, "LPAREN", "Expect '(' after function name."), LAMBDA lp :
    Bind(IF check(toks, lp.cur, "RPAREN") THEN Ok(<<>>, lp.cur)
         ELSE parametersLoop(toks, <<>>, lp.cur), LAMBDA ps :
    Bind(consume(toks, ps.cur, "RPAREN", "Expect ')' after parameters."), LAMBDA rp :
    Bind(consume(toks, rp.cur, "COLON", "Expect ':' after function parameters."),
         LAMBDA c :
    Bind(block(toks, c.cur), LAMBDA body :
        Ok(FunctionDeclaration(toks[n.cur].lexeme, ps.node, body.node), body.cur)))))))

membersLoop(toks, members, cur) ==
    IF ~pIsAtEnd(toks, cur) /\ ~check(toks, cur, "DEDENT")
    THEN Bind(declaration(toks, cur), LAMBDA m :
             IF isNull(m.node) THEN Ok(members, cur)
             ELSE membersLoop(toks, Append(members, m.node), m.cur))
    ELSE Ok(members, cur)

\* The optional "(base)" of a class: the base's name ("" when absent).
baseClass(toks, cur) ==
    IF check(toks, cur, "LPAREN")
    THEN Bind(consume(toks, cur + 1, "IDENTIFIER", "Expect base class name."), LAMBDA b :
         Bind(consume(toks, b.cur, "RPAREN", "Expect ')' after base class."), LAMBDA rp :
             Ok(toks[b.cur].lexeme, rp.cur)))
    ELSE Ok(<<>>, cur)

classDeclaration(toks, cur) ==
    Bind(consume(toks, cur, "IDENTIFIER", "Expect class name."), LAMBDA n :
    Bind(baseClass(toks, n.cur), LAMBDA base :
    Bind(consume(toks, base.cur, "COLON", "Expect ':' after class declaration."),
         LAMBDA c :
    Bind(membersLoop(toks, <<>>, c.cur), LAMBDA ms :
        Ok(ClassDeclaration(toks[n.cur].lexeme, base.node, ms.node), ms.cur)))))

\* Returns the null pointer, with the cursor unmoved, at any token other than
\* import, def and class.
declaration(toks, cur) ==
    IF check(toks, cur, "IMPORT") THEN importDeclaration(toks, cur + 1)
    ELSE IF check(toks, cur, "DEF") THEN functionDeclaration(toks, cur + 1)
    ELSE IF check(toks, cur, "CLASS") THEN classDeclaration(toks, cur + 1)
    ELSE Ok(Null, cur)

\* if (auto decl = declaration()) ... else if (auto stmt = statement()) ...
declarationOrStatement(toks, cur) ==
    Bind(declaration(toks, cur), LAMBDA decl :
        IF isNull(decl.node) THEN statement(toks, cur) ELSE decl)

-----------------------------------------------------------------------------
(* Source texts.                                                            *)

\* def f(n): / return n + 1 / result = f(4), the body indented by four spaces
E2ESource ==
    <<"d", "e", "f", " ", "f", "(", "n", ")", ":", "\n", " ", " ", " ", " ", "r", "e",
      "t", "u", "r", "n", " ", "n", " ", "+", " ", "1", "\n", "r", "e", "s", "u", "l",
      "t", " ", "=", " ", "f", "(", "4", ")">>

\* if a: x = 1 / elif b: x = 2 / else: x = 3
IfElifElseSource ==
    <<"i", "f", " ", "a", ":", " ", "x", " ", "=", " ", "1", "\n", "e", "l", "i", "f",
      " ", "b", ":", " ", "x", " ", "=", " ", "2", "\n", "e", "l", "s", "e", ":", " ",
      "x", " ", "=", " ", "3">>

\* def f(): with the two-statement body a, b, followed by the statement c
BlockSource ==
    <<"d", "e", "f", " ", "f", "(", ")", ":", "\n", " ", " ", " ", " ", "a", "\n", " ",
      " ", " ", " ", "b", "\n", "c">>

\* a while loop nested in the body of a while loop
NestedBlockSource ==
    <<"w", "h", "i", "l", "e", " ", "a", ":", "\n", " ", " ", " ", " ", "w", "h", "i",
      "l", "e", " ", "b", ":", "\n", " ", " ", " ", " ", " ", " ", " ", " ", "c", "\n",
      " ", " ", " ", " ", "d", "\n", "e">>

\* f(x, y)
CallSource ==
    <<"f", "(", "x", ",", " ", "y", ")">>

\* f(x)
CallOneSource ==
    <<"f", "(", "x", ")">>

\* o.name
AttributeSource ==
    <<"o", ".", "n", "a", "m", "e">>

\* o[i]
SubscriptSource ==
    <<"o", "[", "i", "]">>

\* f(x).g[i]
ChainSource ==
    <<"f", "(", "x", ")", ".", "g", "[", "i", "]">>

\* 2 ** 3 ** 2
PowerSource ==
    <<"2", " ", "*", "*", " ", "3", " ", "*", "*", " ", "2">>

\* 2 + 3 * 4
PrecedenceSource ==
    <<"2", " ", "+", " ", "3", " ", "*", " ", "4">>

ExampleSources ==
    {E2ESource, IfElifElseSource, BlockSource, NestedBlockSource, CallSource,
     CallOneSource, AttributeSource, SubscriptSource, ChainSource, PowerSource,
     PrecedenceSource}

Spaces(n) == [i \in 1..n |-> " "]

\* Leading-space counts of a line: none, one short of the unit, one level, two.
Widths == {0, IndentUnit - 1, IndentUnit, 2 * IndentUnit}

\* A line: an identifier after its leading spaces, or the empty line.
LineSet == {Spaces(w) \o <<"a">> : w \in Widths} \cup {<<>>}

RECURSIVE LinesJoined(_)
LinesJoined(n) ==
    IF n = 1 THEN LineSet
    ELSE {s \o <<"\n">> \o l : s \in LinesJoined(n - 1), l \in LineSet}

\* Sources of 1..MaxLines lines, each indented by one of Widths.
IndentSources == UNION {LinesJoined(n) : n \in 1..MaxLines}

FlatAlphabet == {"a", "1", " ", "\n", "=", "\"", "#", ".", "!"}

\* Every source of at most MaxFlat characters of FlatAlphabet.
FlatSources == UNION {[1..n -> FlatAlphabet] : n \in 0..MaxFlat}


\* The operands of a chain, by position: identifiers or integer literals.
OperandStyles == {<<"a", "b", "c", "d", "e">>, <<"2", "3", "4", "5", "6">>}

Operand(style, i) == <<style[((i - 1) % Len(style)) + 1]>>

OperatorTexts ==
    {<<"+">>, <<"-">>, <<"*">>, <<"/">>, <<"/", "/">>, <<"%">>, <<"*", "*">>,
     <<"=", "=">>, <<"!", "=">>, <<"<">>, <<"<", "=">>, <<">">>, <<">", "=">>,
     <<"a", "n", "d">>, <<"o", "r">>}

\* Largest number of operands of a generated operator chain.
MaxOperands == 3

\* Programs handed to the compiler: at most this many function declarations
\* and this many top-level statements.
MaxDeclarations == 1

MaxStatements == 2

RECURSIVE Chains(_, _)
Chains(style, n) ==
    IF n = 1 THEN {Operand(style, 1)}
    ELSE {c \o <<" ">> \o op \o <<" ">> \o Operand(style, n) :
            c \in Chains(style, n - 1), op \in OperatorTexts}

\* x op y op z ...: chains of 1..MaxOperands operands.
ExprSources == UNION {Chains(style, n) : style \in OperandStyles, n \in 1..MaxOperands}

Sources == IndentSources \cup FlatSources \cup ExprSources \cup ExampleSources

-----------------------------------------------------------------------------
(* Tokenizer::tokenize as a function of the source: the tokens up to and     *)
(* including EOF, or the exception of the nextToken call that threw.        *)

\* The loop as "while (token.type != EOF_TOKEN) push_back": the EOF token is
\* not pushed.
RECURSIVE tokenizeLoopWhile(_, _, _, _, _)
tokenizeLoopWhile(src, c, st, stack, toks) ==
    LET n == nextToken(src, c, st, stack)
    IN  IF n.r.threw
        THEN [threw |-> TRUE, tokens |-> toks, msg |-> n.r.msg, line |-> n.r.errline]
        ELSE IF n.r.token.type = "EOF_TOKEN"
        THEN [threw |-> FALSE, tokens |-> toks, msg |-> "", line |-> 0]
        ELSE tokenizeLoopWhile(src, n.r.c, n.start, n.r.stack,
                               Append(toks, n.r.token))

\* do { token = nextToken(); tokens.push_back(token); } while (not EOF_TOKEN);
\* for an exception, the vector as it was when nextToken() threw (it is lost
\* with the frame of tokenize()) and the message and line of the exception.
RECURSIVE tokenizeLoop(_, _, _, _, _)
tokenizeLoop(src, c, st, stack, toks) ==
    LET n == nextToken(src, c, st, stack)
    IN  IF n.r.threw
        THEN [threw |-> TRUE, tokens |-> toks, msg |-> n.r.msg, line |-> n.r.errline]
        ELSE IF n.r.token.type = "EOF_TOKEN"
        THEN [threw |-> FALSE, tokens |-> Append(toks, n.r.token),
              msg |-> "", line |-> 0]
        ELSE tokenizeLoop(src, n.r.c, n.start, n.r.stack, Append(toks, n.r.token))

tokenize(src) == tokenizeLoop(src, Cursor(0, 1, 0), 0, <<0>>, <<>>)

-----------------------------------------------------------------------------
(* The IR the Compiler builds through llvm::IRBuilder (compiler.hpp lines    *)
(* 39-48).  A function of the module has at most the one basic block the    *)
(* compiler gives it, "entry"; the builder inserts at the end of the block  *)
(* of function ip.  b is the state of context, module and builder together  *)
(* with the two properties of the LLVM build the outcome depends on: with   *)
(* assertions a broken precondition of an IRBuilder call aborts the         *)
(* process, without them the instruction is built as asked; with typed      *)
(* pointers (before LLVM 15) a slot has a pointee type, with opaque         *)
(* pointers it has none.                                                    *)

\* An IR value: a constant (k "const" and its literal), the result of
\* instruction idx of function fn (k "inst"), parameter idx of function fn
\* (k "arg"), or the null pointer llvm::Value* (k "null").
Value(k, type, fn, idx, lit) ==
    [k |-> k, type |-> type, fn |-> fn, idx |-> idx, lit |-> lit]

NullValue == Value("null", "void", 0, 0, NoValue)

isNullValue(v) == v.k = "null"

Constant(type, lit) == Value("const", type, 0, 0, lit)

getInt64(n) == Constant("i64", IntValue(n))

getInt32(n) == Constant("i32", IntValue(n))

\* A constant expression whose value is not followed.
Folded(type) == Constant(type, [t |-> "expr", v |-> 0])

Instruction(op, type, operands, var, allocated) ==
    [op |-> op, type |-> type, operands |-> operands, name |-> var,
     allocated |-> allocated]

isTerminator(inst) == inst.op = "ret"

\* BasicBlock::getTerminator(): the last instruction when it is a terminator.
getTerminator(bb) == bb # <<>> /\ isTerminator(bb[Len(bb)])

IntegerTypes == {"i1", "i32", "i64"}

Outcome(b, v) == [b |-> b, v |-> v]

Abort(b) == Outcome([b EXCEPT !.aborted = TRUE], NullValue)

\* IRBuilder::Insert at the end of the block of the insert point.
Insert(b, inst) ==
    IF b.aborted THEN Outcome(b, NullValue)
    ELSE Outcome([b EXCEPT !.module[b.ip].entry = Append(@, inst)],
                 Value("inst", inst.type, b.ip, Len(b.module[b.ip].entry) + 1,
                       NoValue))

\* The type an alloca instruction allocates.
AllocatedType(b, slot) == b.module[slot.fn].entry[slot.idx].allocated

\* With typed pointers the pointee type of the slot must be the type loaded
\* or stored.
PointeeMatches(b, slot, type) == b.opaque_pointers \/ AllocatedType(b, slot) = type

CreateAlloca(b, type, var) == Insert(b, Instruction("alloca", "ptr", <<>>, var, type))

CreateStore(b, value, slot) ==
    IF b.assertions /\ ~PointeeMatches(b, slot, value.type) THEN Abort(b)
    ELSE Insert(b, Instruction("store", "void", <<value, slot>>, <<>>, ""))

CreateLoad(b, type, slot) ==
    IF b.assertions /\ ~PointeeMatches(b, slot, type) THEN Abort(b)
    ELSE Insert(b, Instruction("load", type, <<slot>>, <<>>, ""))

\* CreateRet(V) with V null builds "ret void", as CreateRetVoid() does.
CreateRet(b, value) ==
    Insert(b, Instruction("ret", "void",
                          IF isNullValue(value) THEN <<>> ELSE <<value>>, <<>>, ""))

\* Signed division and remainder, truncating toward zero.
Magnitude(x) == IF x < 0 THEN -x ELSE x

SDiv(x, y) ==
    IF (x < 0) = (y < 0) THEN Magnitude(x) \div Magnitude(y)
    ELSE -(Magnitude(x) \div Magnitude(y))

SRem(x, y) == x - y * SDiv(x, y)

\* The constant folder of the builder on two constants: no instruction is
\* inserted.  Values are followed for i64 integers, whose arithmetic does not
\* wrap on the small literals of the programs lowered here.
FoldConstants(op, type, l, r) ==
    IF ~(l.type = "i64" /\ r.type = "i64" /\ l.lit.t = "int" /\ r.lit.t = "int")
    THEN Folded(type)
    ELSE CASE op = "add" -> getInt64(l.lit.v + r.lit.v)
           [] op = "sub" -> getInt64(l.lit.v - r.lit.v)
           [] op = "mul" -> getInt64(l.lit.v * r.lit.v)
           [] op = "xor" /\ r.lit.v = -1 -> getInt64(-l.lit.v - 1)
           [] op = "sdiv" /\ r.lit.v # 0 -> getInt64(SDiv(l.lit.v, r.lit.v))
           [] op = "srem" /\ r.lit.v # 0 -> getInt64(SRem(l.lit.v, r.lit.v))
           [] op = "icmp eq" -> Constant("i1", BoolValue(l.lit.v = r.lit.v))
           [] op = "icmp ne" -> Constant("i1", BoolValue(l.lit.v # r.lit.v))
           [] op = "icmp slt" -> Constant("i1", BoolValue(l.lit.v < r.lit.v))
           [] op = "icmp sle" -> Constant("i1", BoolValue(l.lit.v <= r.lit.v))
           [] op = "icmp sgt" -> Constant("i1", BoolValue(l.lit.v > r.lit.v))
           [] op = "icmp sge" -> Constant("i1", BoolValue(l.lit.v >= r.lit.v))
           [] OTHER -> Folded(type)

\* CreateAdd, CreateSub, CreateMul, CreateSDiv, CreateSRem, CreateICmp*:
\* the operands must have one type, an integer type (or, compared, a
\* pointer type).
CreateBinOp(b, op, type, l, r) ==
    IF b.assertions /\ (l.type # r.type \/ l.type \notin IntegerTypes \cup
                           (IF type = "i1" THEN {"ptr"} ELSE {}))
    THEN Abort(b)
    ELSE IF l.k = "const" /\ r.k = "const"
    THEN Outcome(b, FoldConstants(op, type, l, r))
    ELSE Insert(b, Instruction(op, type, <<l, r>>, <<>>, ""))

CreateArith(b, op, l, r) == CreateBinOp(b, op, l.type, l, r)

CreateICmp(b, op, l, r) == CreateBinOp(b, op, "i1", l, r)

\* CreateNeg(V) is "sub 0, V"; CreateNot(V) is "xor V, -1".
CreateNeg(b, v) == CreateBinOp(b, "sub", v.type, Constant(v.type, IntValue(0)), v)

CreateNot(b, v) == CreateBinOp(b, "xor", v.type, v, Constant(v.type, IntValue(-1)))

\* CreateCall(FunctionType::get(i64, false), callee, args): the function type
\* has no parameters; the callee is whatever value was passed.
CreateCall(b, callee, args) ==
    IF b.assertions /\ (args # <<>> \/ (~b.opaque_pointers /\ callee.type # "ptr"))
    THEN Abort(b)
    ELSE Insert(b, Instruction("call", "i64", <<callee>> \o args, <<>>, ""))

-----------------------------------------------------------------------------
(* Compiler: expressions (compiler.cpp lines 75-184).  vt is the map        *)
(* variables, kept as the sequence of its entries.                          *)

find(vt, var) == {i \in 1..Len(vt) : vt[i].name = var}

\* variables[name] = slot
assign(vt, var, slot) ==
    IF find(vt, var) = {} THEN Append(vt, [name |-> var, slot |-> slot])
    ELSE [i \in 1..Len(vt) |-> IF vt[i].name = var
                                THEN [name |-> var, slot |-> slot] ELSE vt[i]]

compileLiteralExpression(expr, b) ==
    Outcome(b, CASE expr.value.t = "int" -> getInt64(expr.value.v)
                 [] expr.value.t = "float" -> Constant("double", expr.value)
                 [] expr.value.t = "bool" -> Constant("i1", expr.value)
                 [] expr.value.t = "str" -> Constant("ptr", expr.value)
                 [] OTHER -> getInt32(0))

\* An identifier lowered without looking it up: always the default.
identifierAlwaysDefault(expr, b, vt) == Outcome(b, getInt64(0))

compileIdentifierExpression(expr, b, vt) ==
    IF find(vt, expr.name) # {}
    THEN CreateLoad(b, "i64", vt[CHOOSE i \in find(vt, expr.name) : TRUE].slot)
    ELSE Outcome(b, getInt64(0))

\* The switch of compileBinaryExpression on the two lowered operands.
binaryOperation(expr, left, r) ==
    IF isNullValue(left) \/ isNullValue(r.v) THEN Outcome(r.b, NullValue)
    ELSE CASE expr.op = "ADD" -> CreateArith(r.b, "add", left, r.v)
           [] expr.op = "SUBTRACT" -> CreateArith(r.b, "sub", left, r.v)
           [] expr.op = "MULTIPLY" -> CreateArith(r.b, "mul", left, r.v)
           [] expr.op = "DIVIDE" -> CreateArith(r.b, "sdiv", left, r.v)
           [] expr.op = "MODULO" -> CreateArith(r.b, "srem", left, r.v)
           [] expr.op = "EQUAL" -> CreateICmp(r.b, "icmp eq", left, r.v)
           [] expr.op = "NOT_EQUAL" -> CreateICmp(r.b, "icmp ne", left, r.v)
           [] expr.op = "LESS" -> CreateICmp(r.b, "icmp slt", left, r.v)
           [] expr.op = "LESS_EQUAL" -> CreateICmp(r.b, "icmp sle", left, r.v)
           [] expr.op = "GREATER" -> CreateICmp(r.b, "icmp sgt", left, r.v)
           [] expr.op = "GREATER_EQUAL" -> CreateICmp(r.b, "icmp sge", left, r.v)
           [] OTHER -> Outcome(r.b, NullValue)

\* The switch of compileUnaryExpression on the lowered operand.
unaryOperation(expr, o) ==
    IF isNullValue(o.v) THEN o
    ELSE CASE expr.op = "PLUS" -> o
           [] expr.op = "MINUS" -> CreateNeg(o.b, o.v)
           [] expr.op = "NOT" -> CreateNot(o.b, o.v)
           [] OTHER -> Outcome(o.b, NullValue)

RECURSIVE compileExpression(_, _, _)
RECURSIVE compileArguments(_, _, _)

compileBinaryRight(expr, l, vt) ==
    binaryOperation(expr, l.v, compileExpression(expr.right, l.b, vt))

compileBinaryExpression(expr, b, vt) ==
    compileBinaryRight(expr, compileExpression(expr.left, b, vt), vt)

compileUnaryExpression(expr, b, vt) ==
    unaryOperation(expr, compileExpression(expr.operand, b, vt))

\* The loop over the arguments: a is the builder state and the vector args so
\* far; an argument lowered to null is left out.
compileArgument(arguments, a, r, vt) ==
    compileArguments(Tail(arguments),
                     Outcome(r.b, IF isNullValue(r.v) THEN a.v ELSE Append(a.v, r.v)),
                     vt)

compileArguments(arguments, a, vt) ==
    IF arguments = <<>> THEN a
    ELSE compileArgument(arguments, a, compileExpression(Head(arguments), a.b, vt), vt)

callWith(callee, a) == CreateCall(a.b, callee, a.v)

compileCallAfterCallee(expr, c, vt) ==
    IF isNullValue(c.v) THEN c
    ELSE callWith(c.v, compileArguments(expr.arguments, Outcome(c.b, <<>>), vt))

compileCallExpression(expr, b, vt) ==
    compileCallAfterCallee(expr, compileExpression(expr.callee, b, vt), vt)

compileExpression(expr, b, vt) ==
    IF b.aborted THEN Outcome(b, NullValue)
    ELSE CASE expr.kind = "Literal" -> compileLiteralExpression(expr, b)
           [] expr.kind = "Identifier" -> compileIdentifierExpression(expr, b, vt)
           [] expr.kind = "Binary" -> compileBinaryExpression(expr, b, vt)
           [] expr.kind = "Unary" -> compileUnaryExpression(expr, b, vt)
           [] expr.kind = "Call" -> compileCallExpression(expr, b, vt)
           [] OTHER -> Outcome(b, NullValue)

-----------------------------------------------------------------------------
(* Compiler: statements and declarations (compiler.cpp lines 186-301).  s   *)
(* is the state a statement works on: the builder state b and the map vt.   *)

Lowering(b, vt) == [b |-> b, vt |-> vt]

\* The else branch of compileAssignmentStatement after CreateAlloca.
storeInNewSlot(stmt, value, a, vt) ==
    Lowering(CreateStore(a.b, value, a.v).b,
             IF a.b.aborted THEN vt ELSE assign(vt, stmt.name, a.v))

\* compileAssignmentStatement once the value r is lowered.
storeValue(stmt, r, vt) ==
    IF isNullValue(r.v) THEN Lowering(r.b, vt)
    ELSE IF find(vt, stmt.name) # {}
    THEN Lowering(CreateStore(r.b, r.v,
                              vt[CHOOSE i \in find(vt, stmt.name) : TRUE].slot).b, vt)
    ELSE storeInNewSlot(stmt, r.v, CreateAlloca(r.b, r.v.type, stmt.name), vt)

compileAssignmentStatement(stmt, s) ==
    storeValue(stmt, compileExpression(stmt.value, s.b, s.vt), s.vt)

compileExpressionStatement(stmt, s) ==
    Lowering(compileExpression(stmt.expression, s.b, s.vt).b, s.vt)

returnValue(r) == CreateRet(r.b, r.v).b

compileReturnStatement(stmt, s) ==
    IF ~isNull(stmt.value)
    THEN Lowering(returnValue(compileExpression(stmt.value, s.b, s.vt)), s.vt)
    ELSE Lowering(CreateRet(s.b, NullValue).b, s.vt)

\* compileIfStatement, compileWhileStatement and compileForStatement have
\* empty bodies; a statement of any other class is not dispatched.
compileStatement(stmt, s) ==
    IF s.b.aborted THEN s
    ELSE CASE stmt.kind = "Assignment" -> compileAssignmentStatement(stmt, s)
           [] stmt.kind = "ExpressionStatement" -> compileExpressionStatement(stmt, s)
           [] stmt.kind = "Return" -> compileReturnStatement(stmt, s)
           [] OTHER -> s

\* for (stmt : decl->body) compileStatement(stmt)
RECURSIVE compileBody(_, _)
compileBody(body, s) ==
    IF body = <<>> THEN s
    ELSE compileBody(Tail(body), compileStatement(Head(body), s))

\* llvm::Function::Create and, for a function that gets one, its entry block.
Function(fname, ret, params, defined) ==
    [name |-> fname, ret |-> ret, params |-> params, defined |-> defined,
     entry |-> <<>>]

\* One parameter of the loop "Store function parameters".
storeParameter(decl, i, s, a) ==
    Lowering(CreateStore(a.b, Value("arg", "i64", s.b.ip, i, NoValue), a.v).b,
             assign(s.vt, decl.parameters[i], a.v))

RECURSIVE storeParameters(_, _, _)
storeParameters(decl, i, s) ==
    IF i > Len(decl.parameters) THEN s
    ELSE storeParameters(decl, i + 1,
             storeParameter(decl, i, s,
                            CreateAlloca(s.b, "i64", decl.parameters[i])))

\* "Add return if not present": entryBlock is the block of the function
\* being declared, and the builder still inserts into it.
addReturnIfNotPresent(s) ==
    IF s.b.aborted \/ getTerminator(s.b.module[s.b.ip].entry) THEN s
    ELSE Lowering(CreateRet(s.b, getInt64(0)).b, s.vt)

\* The builder is left on the entry block of the new function and the map
\* variables keeps the entries made for it.
compileFunctionDeclaration(decl, s) ==
    addReturnIfNotPresent(
        compileBody(decl.body,
            storeParameters(decl, 1,
                Lowering([s.b EXCEPT
                              !.module = Append(@, Function(decl.name, "i64",
                                                            Len(decl.parameters), TRUE)),
                              !.ip = Len(s.b.module) + 1],
                         s.vt))))

\* compileClassDeclaration has an empty body; an import is not dispatched.
compileDeclaration(decl, s) ==
    IF decl.kind = "Function" THEN compileFunctionDeclaration(decl, s) ELSE s

\* setupStandardLibrary() and createMainFunction() on the empty module of
\* the constructor: printf is declared, main is function 2.
PrintfName == <<"p", "r", "i", "n", "t", "f">>

MainName == <<"m", "a", "i", "n">>

MainFunction == 2

ModuleWithMain == <<Function(PrintfName, "i32", 1, FALSE),
                    Function(MainName, "i32", 0, TRUE)>>

-----------------------------------------------------------------------------
(* llvm::verifyModule, as far as the instructions the compiler builds go:   *)
(* TRUE when the module is broken.                                          *)

\* An operand is a constant or a value of the same function defined earlier.
OperandInScope(f, i, v) ==
    \/ v.k = "const"
    \/ v.k = "arg" /\ v.fn = f
    \/ v.k = "inst" /\ v.fn = f /\ v.idx < i

InstructionBroken(m, opaque, f, i) ==
    LET inst == m[f].entry[i]
        ops == inst.operands
        pointee(slot) == IF slot.k = "inst" THEN m[slot.fn].entry[slot.idx].allocated
                         ELSE "i8"
    IN  \/ \E k \in 1..Len(ops) : ~OperandInScope(f, i, ops[k])
        \/ isTerminator(inst) /\ i # Len(m[f].entry)
        \/ inst.op = "ret" /\ ops = <<>> /\ m[f].ret # "void"
        \/ inst.op = "ret" /\ ops # <<>> /\ ops[1].type # m[f].ret
        \/ inst.op = "store" /\ (ops[2].type # "ptr"
                                 \/ (~opaque /\ pointee(ops[2]) # ops[1].type))
        \/ inst.op = "load" /\ (ops[1].type # "ptr"
                                \/ (~opaque /\ pointee(ops[1]) # inst.type))
        \/ inst.op \in {"add", "sub", "mul", "sdiv", "srem", "xor"}
           /\ (ops[1].type # ops[2].type \/ ops[1].type \notin IntegerTypes)
        \/ inst.op \in {"icmp eq", "icmp ne", "icmp slt", "icmp sle", "icmp sgt",
                        "icmp sge"}
           /\ (ops[1].type # ops[2].type \/ ops[1].type \notin IntegerTypes \cup {"ptr"})
        \/ inst.op = "call" /\ (ops[1].type # "ptr" \/ ~opaque \/ Len(ops) # 1)

verifyModule(m, opaque) ==
    \E f \in 1..Len(m) :
        /\ m[f].defined
        /\ \/ ~getTerminator(m[f].entry)
           \/ \E i \in 1..Len(m[f].entry) : InstructionBroken(m, opaque, f, i)

-----------------------------------------------------------------------------
(* The state machine.                                                       *)

NoLexError == [msg |-> "", line |-> 0]

ParserIdle ==
    /\ parser_tokens = <<>>
    /\ parser_current = 0
    /\ declarations = <<>>
    /\ statements = <<>>
    /\ ast = Null
    /\ parseError = NoError

\* main() constructs no Compiler.
CompilerIdle ==
    /\ program = Null
    /\ compiling = "idle"
    /\ module = <<>>
    /\ insertPoint = 0
    /\ currentFunction = 0
    /\ variables = <<>>
    /\ next_declaration = 1
    /\ next_statement = 1
    /\ result = "none"
    /\ compileError = ""
    /\ assertions = FALSE
    /\ opaque_pointers = TRUE

\* PulseDebugger::PulseDebugger(): the debugger is a program of its own, and
\* main() of the compiler constructs none.
DebuggerIdle ==
    /\ isRunning = FALSE
    /\ currentLine = 0
    /\ currentFile = ""
    /\ breakpoints = <<>>
    /\ output = <<>>

\* Tokenizer::Tokenizer(source), main.cpp line 137
Init ==
    /\ phase = "lex"
    /\ source \in Sources
    /\ current = 0
    /\ start = 0
    /\ line = 1
    /\ column = 0
    /\ indent_stack = <<0>>
    /\ tokens = <<>>
    /\ lexError = NoLexError
    /\ ParserIdle
    /\ CompilerIdle
    /\ DebuggerIdle

\* One iteration of the loop of tokenize(): a call of nextToken() and the
\* push_back of its token.  An exception leaves tokenize() and main().
NextToken ==
    /\ phase = "lex"
    /\ LET n == nextToken(source, Cursor(current, line, column), start, indent_stack)
       IN  /\ current' = n.r.c.current
           /\ line' = n.r.c.line
           /\ column' = n.r.c.column
           /\ start' = n.start
           /\ indent_stack' = n.r.stack
           /\ IF n.r.threw
              THEN /\ tokens' = tokens
                   /\ lexError' = [msg |-> n.r.msg, line |-> n.r.errline]
                   /\ phase' = "done"
              ELSE /\ tokens' = Append(tokens, n.r.token)
                   /\ lexError' = lexError
                   /\ phase' = IF n.r.token.type = "EOF_TOKEN" THEN "lexed" ELSE "lex"
    /\ UNCHANGED <<source, parseVars, compilerVars, debuggerVars>>

\* Parser::Parser(tokens), main.cpp line 143
StartParser ==
    /\ phase = "lexed"
    /\ parser_tokens' = tokens
    /\ parser_current' = 0
    /\ phase' = "parse"
    /\ UNCHANGED <<lexVars, declarations, statements, ast, parseError, compilerVars,
                 debuggerVars>>

\* What program() does with the outcome n of "declaration() else statement()":
\* push_back on the vector of its kind; or, n being an exception, parse()
\* catches it, reports it and returns the null pointer, and main() returns 1.
ProgramPush(n) ==
    /\ parser_current' = n.cur
    /\ IF ~n.ok
       THEN /\ declarations' = <<>>
            /\ statements' = <<>>
            /\ ast' = Null
            /\ parseError' = n.err
            /\ phase' = "done"
       ELSE /\ declarations' = IF n.node.kind \in {"Function", "Class", "Import"}
                               THEN Append(declarations, n.node) ELSE declarations
            /\ statements' = IF n.node.kind \in {"Function", "Class", "Import"}
                             THEN statements ELSE Append(statements, n.node)
            /\ UNCHANGED <<ast, parseError, phase>>

\* Parser::parse(), main.cpp line 144: one evaluation of the loop condition
\* of program() with the iteration or the return that follows it.
ProgramStep ==
    /\ phase = "parse"
    /\ IF pIsAtEnd(parser_tokens, parser_current)
       THEN /\ ast' = Program(declarations, statements)
            /\ phase' = "done"
            /\ declarations' = <<>>
            /\ statements' = <<>>
            /\ UNCHANGED <<parser_current, parseError>>
       ELSE IF pPeek(parser_tokens, parser_current).type \in {"INDENT", "DEDENT", "NEWLINE"}
       THEN /\ parser_current' = parser_current + 1
            /\ UNCHANGED <<declarations, statements, ast, parseError, phase>>
       ELSE ProgramPush(declarationOrStatement(parser_tokens, parser_current))
    /\ UNCHANGED <<lexVars, parser_tokens, compilerVars, debuggerVars>>

Next == NextToken \/ StartParser \/ ProgramStep

Spec == Init /\ [][Next]_vars

-----------------------------------------------------------------------------
(* Compiler::compile on a Program, one declaration or statement of the      *)
(* Program per step (compiler.cpp lines 18-57).  main() never calls it: the *)
(* Program is one a caller of the class hands over.                         *)

X == <<"x">>

AssignInt == AssignmentStatement(X, LiteralExpression(IntValue(1)))

AssignFloat == AssignmentStatement(X, LiteralExpression(FloatValue(1, <<"5">>)))

ReturnX == ReturnStatement(IdentifierExpression(X))

CallF1 ==
    ExpressionStatement(CallExpression(IdentifierExpression(<<"f">>),
                                       <<LiteralExpression(IntValue(1))>>))

CallG0 == ExpressionStatement(CallExpression(IdentifierExpression(<<"g">>), <<>>))

TopStatements == {AssignInt, AssignFloat, ReturnX, CallF1, CallG0}

Bodies == {<<>>, <<ReturnX>>, <<AssignInt>>}

FunctionsF ==
    {FunctionDeclaration(<<"f">>, ps, body) : ps \in {<<>>, <<X>>}, body \in Bodies}

FunctionsG == {FunctionDeclaration(<<"g">>, <<>>, <<AssignInt>>)}

SeqsUpTo(S, n) == UNION {[1..k -> S] : k \in 0..n}

\* At most MaxDeclarations functions of different names.
DeclarationLists ==
    {ds \in SeqsUpTo(FunctionsF \cup FunctionsG, MaxDeclarations) :
        \A i, j \in 1..Len(ds) : ds[i].name = ds[j].name => i = j}

\* def f(n): return n + 1 / result = f(4), as parse() is meant to build it.
ExampleProgram ==
    Program(
        <<FunctionDeclaration(<<"f">>, <<<<"n">>>>,
              <<ReturnStatement(BinaryExpression("ADD",
                    IdentifierExpression(<<"n">>), LiteralExpression(IntValue(1))))>>)>>,
        <<AssignmentStatement(<<"r">>,
              CallExpression(IdentifierExpression(<<"f">>),
                             <<LiteralExpression(IntValue(4))>>))>>)

\* y = x and x, y = x or x
AssignLogical(op) ==
    AssignmentStatement(<<"y">>,
        BinaryExpression(op, IdentifierExpression(X), IdentifierExpression(X)))

\* while False: x = 1
WhileFalse == WhileStatement(LiteralExpression(BoolValue(FALSE)), <<AssignInt>>)

\* x = 1 followed by a statement with control flow in it.
ControlFlowPrograms ==
    {Program(<<>>, <<AssignInt, st>>) :
        st \in {AssignLogical("AND"), AssignLogical("OR"), WhileFalse}}

Programs ==
    {Program(ds, ss) : ds \in DeclarationLists,
                       ss \in SeqsUpTo(TopStatements, MaxStatements)}
        \cup ControlFlowPrograms \cup {ExampleProgram, Null}

\* Compiler::Compiler and the call compile(program, outputFile); no
\* tokenizer or parser is at work.
CompilerInit ==
    /\ phase = "compile"
    /\ source = <<>>
    /\ current = 0
    /\ start = 0
    /\ line = 1
    /\ column = 0
    /\ indent_stack = <<0>>
    /\ tokens = <<>>
    /\ lexError = NoLexError
    /\ ParserIdle
    /\ DebuggerIdle
    /\ program \in Programs
    /\ compiling = "start"
    /\ module = <<>>
    /\ insertPoint = 0
    /\ currentFunction = 0
    /\ variables = <<>>
    /\ next_declaration = 1
    /\ next_statement = 1
    /\ result = "none"
    /\ compileError = ""
    /\ assertions \in BOOLEAN
    /\ opaque_pointers \in BOOLEAN

Builder ==
    [module |-> module, ip |-> insertPoint, aborted |-> FALSE,
     assertions |-> assertions, opaque_pointers |-> opaque_pointers]

\* The state a lowering routine leaves; a failed LLVM assertion ends the
\* process inside compile().
Lowered(s) ==
    /\ module' = s.b.module
    /\ insertPoint' = s.b.ip
    /\ variables' = s.vt
    /\ IF s.b.aborted
       THEN result' = "aborted" /\ compiling' = "done"
       ELSE UNCHANGED <<result, compiling>>

\* The null test, setupStandardLibrary() and createMainFunction().
CompileBegin ==
    /\ compiling = "start"
    /\ IF isNull(program)
       THEN /\ result' = "false"
            /\ compileError' = "No program to compile"
            /\ compiling' = "done"
            /\ UNCHANGED <<module, insertPoint, currentFunction>>
       ELSE /\ module' = ModuleWithMain
            /\ insertPoint' = MainFunction
            /\ currentFunction' = MainFunction
            /\ compiling' = "lower"
            /\ UNCHANGED <<result, compileError>>
    /\ UNCHANGED <<debuggerVars, phase, lexVars, parseVars, program, variables, next_declaration,
                   next_statement, assertions, opaque_pointers>>

\* One iteration of "Compile all declarations".
CompileDeclarationStep ==
    /\ compiling = "lower"
    /\ next_declaration <= Len(program.declarations)
    /\ Lowered(compileDeclaration(program.declarations[next_declaration],
                                  Lowering(Builder, variables)))
    /\ next_declaration' = next_declaration + 1
    /\ UNCHANGED <<debuggerVars, phase, lexVars, parseVars, program, currentFunction,
                   next_statement, compileError, assertions, opaque_pointers>>

\* One iteration of "Compile all statements in main".
CompileStatementStep ==
    /\ compiling = "lower"
    /\ next_declaration > Len(program.declarations)
    /\ next_statement <= Len(program.statements)
    /\ Lowered(compileStatement(program.statements[next_statement],
                                Lowering(Builder, variables)))
    /\ next_statement' = next_statement + 1
    /\ UNCHANGED <<debuggerVars, phase, lexVars, parseVars, program, currentFunction,
                   next_declaration, compileError, assertions, opaque_pointers>>

\* What compile() returns for the module b holds after "Add return statement
\* to main if not present".
Verified(b) ==
    /\ module' = b.module
    /\ IF verifyModule(b.module, opaque_pointers)
       THEN result' = "false" /\ compileError' = "Module verification failed"
       ELSE result' = "true" /\ compileError' = ""

\* The end of compile(): the terminator test looks at currentBlock, the
\* builder inserts where it stands.
CompileFinish ==
    /\ compiling = "lower"
    /\ next_declaration > Len(program.declarations)
    /\ next_statement > Len(program.statements)
    /\ Verified(IF getTerminator(module[currentFunction].entry) THEN Builder
                ELSE CreateRet(Builder, getInt32(0)).b)
    /\ compiling' = "done"
    /\ UNCHANGED <<debuggerVars, phase, lexVars, parseVars, program, insertPoint, currentFunction,
                   variables, next_declaration, next_statement, assertions,
                   opaque_pointers>>

CompilerNext ==
    CompileBegin \/ CompileDeclarationStep \/ CompileStatementStep \/ CompileFinish

CompilerSpec == CompilerInit /\ [][CompilerNext]_vars

-----------------------------------------------------------------------------
(* The debugger (tools/debugger.cpp): a command loop over a simulated       *)
(* program of LastLine lines.  One action per command of executeCommand.    *)
(* print, info and list only read the state; the maps parseFile() fills are *)
(* read by print and info alone and are left out.                           *)

\* The last line of the simulated program (simulateExecution's loop bound).
LastLine == 20

\* Breakpoints the user may set before the vector is taken as full.
MaxBreakpoints == 2

\* step and next increment currentLine without a limit; the model stops here.
MaxCurrentLine == 22

Files == {"a.pul", "b.pul"}

BreakLines == {1, 3, LastLine}

\* What follows the word "break": nothing, a word without a colon, a line
\* that is no number, or <file>:<line>.
Locations ==
    {[kind |-> "empty"], [kind |-> "nocolon"], [kind |-> "badline"]}
        \cup {[kind |-> "ok", file |-> f, line |-> l] : f \in Files, l \in BreakLines}

Breakpoint(file, l) == [file |-> file, line |-> l, enabled |-> TRUE, condition |-> ""]

\* The test of checkBreakpoints() and of the any_of of simulateExecution().
enabledBreakpointAt(bps, file, l) ==
    \E i \in 1..Len(bps) : bps[i].enabled /\ bps[i].file = file /\ bps[i].line = l

\* PulseDebugger::checkBreakpoints: the message, if a breakpoint is hit.
checkBreakpoints(bps, file, l) ==
    IF enabledBreakpointAt(bps, file, l) THEN <<"Breakpoint hit">> ELSE <<>>

\* The loop of simulateExecution from i on, currentLine being cl: the value
\* of currentLine when the loop is left.
RECURSIVE simulateLoop(_, _, _, _)
simulateLoop(i, cl, file, bps) ==
    IF i > LastLine THEN cl
    ELSE IF enabledBreakpointAt(bps, file, i) THEN i
    ELSE simulateLoop(i + 1, i, file, bps)

\* PulseDebugger::simulateExecution
simulateExecution(cl, file, bps) ==
    LET stop == simulateLoop(cl, cl, file, bps)
    IN  IF stop > LastLine
        THEN [currentLine |-> 0, output |-> <<"Program finished execution">>]
        ELSE [currentLine |-> stop, output |-> checkBreakpoints(bps, file, stop)]

\* PulseDebugger::run up to its loop
DebuggerInit ==
    /\ phase = "debug"
    /\ source = <<>>
    /\ current = 0
    /\ start = 0
    /\ line = 1
    /\ column = 0
    /\ indent_stack = <<0>>
    /\ tokens = <<>>
    /\ lexError = NoLexError
    /\ ParserIdle
    /\ CompilerIdle
    /\ isRunning = TRUE
    /\ currentLine = 0
    /\ currentFile = ""
    /\ breakpoints = <<>>
    /\ output = <<"Pulse Debugger (puldbg)">>

Command == phase = "debug" /\ isRunning

Untouched == UNCHANGED <<phase, lexVars, parseVars, compilerVars>>

\* help: showHelp
showHelp ==
    /\ Command
    /\ output' = <<"Available commands:">>
    /\ UNCHANGED <<isRunning, currentLine, currentFile, breakpoints>>
    /\ Untouched

\* quit
quit ==
    /\ Command
    /\ isRunning' = FALSE
    /\ output' = <<>>
    /\ UNCHANGED <<currentLine, currentFile, breakpoints>>
    /\ Untouched

\* break: handleBreakpoint
handleBreakpoint ==
    /\ Command
    /\ \E location \in Locations :
          CASE location.kind = "empty" ->
                  /\ output' = <<"Usage: break <file>:<line>">>
                  /\ UNCHANGED breakpoints
            [] location.kind = "nocolon" ->
                  /\ output' = <<"Invalid breakpoint format">>
                  /\ UNCHANGED breakpoints
            [] location.kind = "badline" ->
                  /\ output' = <<"Invalid line number">>
                  /\ UNCHANGED breakpoints
            [] location.kind = "ok" ->
                  /\ Len(breakpoints) < MaxBreakpoints
                  /\ breakpoints' =
                        Append(breakpoints, Breakpoint(location.file, location.line))
                  /\ output' = <<"Breakpoint set">>
    /\ UNCHANGED <<isRunning, currentLine, currentFile>>
    /\ Untouched

\* run: runProgram
runProgram ==
    /\ Command
    /\ IF currentFile = ""
       THEN /\ output' = <<"No file loaded. Use 'load <file>' first.">>
            /\ UNCHANGED currentLine
       ELSE LET r == simulateExecution(1, currentFile, breakpoints)
            IN  /\ currentLine' = r.currentLine
                /\ output' = <<"Running program...">> \o r.output
    /\ UNCHANGED <<isRunning, currentFile, breakpoints>>
    /\ Untouched

\* continue: continueExecution
continueExecution ==
    /\ Command
    /\ IF currentLine = 0
       THEN /\ output' = <<"No program running.">>
            /\ UNCHANGED currentLine
       ELSE LET r == simulateExecution(currentLine, currentFile, breakpoints)
            IN  /\ currentLine' = r.currentLine
                /\ output' = <<"Continuing execution...">> \o r.output
    /\ UNCHANGED <<isRunning, currentFile, breakpoints>>
    /\ Untouched

\* step: stepExecution
stepExecution ==
    /\ Command
    /\ IF currentLine = 0
       THEN /\ output' = <<"No program running.">>
            /\ UNCHANGED currentLine
       ELSE /\ currentLine < MaxCurrentLine
            /\ currentLine' = currentLine + 1
            /\ output' = <<"Stepping into...">>
                             \o checkBreakpoints(breakpoints, currentFile, currentLine + 1)
    /\ UNCHANGED <<isRunning, currentFile, breakpoints>>
    /\ Untouched

\* next: nextExecution
nextExecution ==
    /\ Command
    /\ IF currentLine = 0
       THEN /\ output' = <<"No program running.">>
            /\ UNCHANGED currentLine
       ELSE /\ currentLine < MaxCurrentLine
            /\ currentLine' = currentLine + 1
            /\ output' = <<"Stepping over...">>
                             \o checkBreakpoints(breakpoints, currentFile, currentLine + 1)
    /\ UNCHANGED <<isRunning, currentFile, breakpoints>>
    /\ Untouched

\* clear: clearBreakpoints
clearBreakpoints ==
    /\ Command
    /\ breakpoints' = <<>>
    /\ output' = <<"All breakpoints cleared">>
    /\ UNCHANGED <<isRunning, currentLine, currentFile>>
    /\ Untouched

\* load: loadFile, of a file name that may be missing and a file that may
\* not open.
loadFile ==
    /\ Command
    /\ \E filename \in Files \cup {""}, is_open \in BOOLEAN :
          IF filename = ""
          THEN /\ output' = <<"Usage: load <filename>">>
               /\ UNCHANGED <<currentFile, currentLine>>
          ELSE IF ~is_open
          THEN /\ output' = <<"Could not open file">>
               /\ UNCHANGED <<currentFile, currentLine>>
          ELSE /\ currentFile' = filename
               /\ currentLine' = 0
               /\ output' = <<"Loaded file">>
    /\ UNCHANGED <<isRunning, breakpoints>>
    /\ Untouched

DebuggerNext ==
    \/ showHelp
    \/ quit
    \/ handleBreakpoint
    \/ runProgram
    \/ continueExecution
    \/ stepExecution
    \/ nextExecution
    \/ clearBreakpoints
    \/ loadFile

DebuggerSpec == DebuggerInit /\ [][DebuggerNext]_vars

-----------------------------------------------------------------------------
(* Properties of the tokenizer.                                             *)

CountType(toks, type) == Cardinality({i \in 1..Len(toks) : toks[i].type = type})

\* C1: when a line is k >= 2 indentation levels below the stack top, the
\* consumer gets k DEDENT tokens, one per popped level, before the first token
\* of that line.  Stated on the tokens delivered so far: once a token other
\* than DEDENT has just been delivered, every level popped from the stack has
\* been delivered as a DEDENT, so the levels still open are the INDENTs not
\* yet answered by a DEDENT.
C1_EveryPoppedLevelIsDelivered ==
    (/\ lexError = NoLexError
     /\ tokens # <<>>
     /\ tokens[Len(tokens)].type # "DEDENT")
        => CountType(tokens, "INDENT") - CountType(tokens, "DEDENT")
               = Len(indent_stack) - 1

\* C2: in every state of tokenizing, the state left by an indentation error
\* included, the indentation stack is non-empty, its bottom entry is 0 and
\* its entries strictly increase from bottom to top.
C2_IndentStackInvariant ==
    /\ indent_stack # <<>>
    /\ indent_stack[1] = 0
    /\ \A i \in 1..(Len(indent_stack) - 1) : indent_stack[i] < indent_stack[i + 1]

\* An indentation error raised after the DEDENT branch has popped the stack:
\* the one block opened was never closed by a DEDENT, and its level is gone.
C2_ErrorAfterPop ==
    /\ lexError.msg = "Invalid indentation"
    /\ CountType(tokens, "INDENT") = 1
    /\ CountType(tokens, "DEDENT") = 0
    /\ indent_stack = <<0>>

\* C3: tokenize terminates, every nextToken call that neither returns EOF nor
\* raises consumes at least one character of the source, and the returned
\* sequence holds exactly one EOF token, its last.  Termination is the
\* variant Len(source) - current: it is never negative and every call after
\* which the loop goes on makes it smaller.
C3_TokenizeTerminates ==
    [][phase = "lex" =>
          /\ current' <= Len(source)
          /\ (phase' = "lex" => current' > current)
          /\ (phase' = "lexed" =>
                 /\ tokens'[Len(tokens')].type = "EOF_TOKEN"
                 /\ CountType(tokens', "EOF_TOKEN") = 1)]_vars

\* tokenize has returned a sequence of several tokens for a source it read
\* to its end.
C3_ReturnedSeveralTokens ==
    /\ phase = "lexed"
    /\ Len(tokens) >= 4
    /\ current = Len(source)
    /\ Len(source) >= 4

-----------------------------------------------------------------------------
(* Properties of the parser.                                                *)

\* The sources of the grammar's expression statements: operator chains.
GrammaticalSources == ExprSources

\* C4: for the tokens tokenize produces for a grammatical program, parse
\* returns a Program: the loop of program() stops at the EOF token.
C4_ParseReturnsProgram ==
    (phase = "done" /\ lexError = NoLexError /\ source \in GrammaticalSources)
        => ast.kind = "Program"

Name(n) == IdentifierExpression(<<n>>)

IntLit(v) == LiteralExpression(IntValue(v))

\* The declaration of BlockSource: def f() with the body a, b.
BlockExpected ==
    FunctionDeclaration(<<"f">>, <<>>,
        <<ExpressionStatement(Name("a")), ExpressionStatement(Name("b"))>>)

\* The statement of NestedBlockSource: while a, its body the loop while b
\* (with the body c) and the statement d.
NestedBlockExpected ==
    WhileStatement(Name("a"),
        <<WhileStatement(Name("b"), <<ExpressionStatement(Name("c"))>>),
          ExpressionStatement(Name("d"))>>)

\* C5: block() returns the statements between an INDENT and its matching
\* DEDENT, at any depth, consuming the INDENT, the NEWLINEs between the
\* statements and the DEDENT, and parsing resumes after the DEDENT.  Stated
\* of the first iteration of program() on the two block sources: it pushes
\* the node with that body and leaves the cursor just past the DEDENT.
C5_BlockIsIndentToDedent ==
    [][(phase = "parse" /\ parser_current = 0
        /\ source \in {BlockSource, NestedBlockSource})
          => /\ source = BlockSource => declarations' = <<BlockExpected>>
             /\ source = NestedBlockSource => statements' = <<NestedBlockExpected>>
             /\ parser_current' > 0
             /\ parser_tokens[parser_current'].type = "DEDENT"]_vars

Assign(n, v) == AssignmentStatement(<<n>>, IntLit(v))

\* C6: if a: x = 1 / elif b: x = 2 / else: x = 3 parses to one if node whose
\* branches are the if and the elif pair, in source order, and whose else
\* body is the else block.
C6_IfElifElseIsOneNode ==
    [][(phase = "parse" /\ parser_current = 0 /\ source = IfElifElseSource)
          => statements' =
                 <<IfStatement(<<Branch(Name("a"), <<Assign("x", 1)>>),
                                 Branch(Name("b"), <<Assign("x", 2)>>)>>,
                               <<Assign("x", 3)>>)>>]_vars

\* The tokens are those of a chain x op1 y op2 z, op1 of a type of ops1 and
\* op2 of a type of ops2, the operands identifiers or integer literals.
IsOperand(tok) == tok.type \in {"IDENTIFIER", "INTEGER"}

IsChain(toks, ops1, ops2) ==
    /\ Len(toks) = 6
    /\ IsOperand(toks[1]) /\ IsOperand(toks[3]) /\ IsOperand(toks[5])
    /\ toks[2].type \in ops1
    /\ toks[4].type \in ops2
    /\ toks[6].type = "EOF_TOKEN"

\* The node an operand token stands for.
OperandNode(tok) ==
    IF tok.type = "IDENTIFIER" THEN IdentifierExpression(tok.lexeme)
    ELSE LiteralExpression(tok.value)

\* The operator of BinaryExpression an operator token stands for.
OperatorOf(type) ==
    CASE type = "PLUS" -> "ADD"
      [] type = "MINUS" -> "SUBTRACT"
      [] OTHER -> type

\* x op1 (y op2 z) and (x op1 y) op2 z, for the tokens of a chain.
RightNested(toks) ==
    BinaryExpression(OperatorOf(toks[2].type), OperandNode(toks[1]),
        BinaryExpression(OperatorOf(toks[4].type), OperandNode(toks[3]),
                         OperandNode(toks[5])))

LeftNested(toks) ==
    BinaryExpression(OperatorOf(toks[4].type),
        BinaryExpression(OperatorOf(toks[2].type), OperandNode(toks[1]),
                         OperandNode(toks[3])),
        OperandNode(toks[5]))

\* C7: the power operator is right-associative: a ** b ** c parses to
\* Power(a, Power(b, c)).
C7_PowerIsRightAssociative ==
    (phase = "parse" /\ IsChain(parser_tokens, {"POWER"}, {"POWER"})
     /\ statements # <<>>)
        => statements[1] = ExpressionStatement(RightNested(parser_tokens))

Additive == {"PLUS", "MINUS"}

Multiplicative == {"MULTIPLY", "DIVIDE", "FLOOR_DIVIDE", "MODULO"}

PostfixExpected(src) ==
    CASE src = CallSource -> CallExpression(Name("f"), <<Name("x"), Name("y")>>)
      [] src = CallOneSource -> CallExpression(Name("f"), <<Name("x")>>)
      [] src = AttributeSource -> AttributeExpression(Name("o"), <<"n", "a", "m", "e">>)
      [] src = SubscriptSource -> SubscriptExpression(Name("o"), Name("i"))
      [] src = ChainSource ->
             SubscriptExpression(
                 AttributeExpression(CallExpression(Name("f"), <<Name("x")>>), <<"g">>),
                 Name("i"))

PostfixSources ==
    {CallSource, CallOneSource, AttributeSource, SubscriptSource, ChainSource}

\* C9: f(x, y) parses to a call, o.name to an attribute, o[i] to a subscript,
\* and they chain left to right; a call is never split into an identifier and
\* a separate parenthesized expression.  Stated of the first iteration of
\* program(): it pushes the one statement of the source, consuming all of it.
C9_PostfixIsPartOfTheExpression ==
    [][(phase = "parse" /\ parser_current = 0 /\ source \in PostfixSources)
          => /\ statements' = <<ExpressionStatement(PostfixExpected(source))>>
             /\ parser_current' = Len(parser_tokens) - 1]_vars

\* The Program of E2ESource.
E2EExpected ==
    Program(
        <<FunctionDeclaration(<<"f">>, <<<<"n">>>>,
              <<ReturnStatement(BinaryExpression("ADD", Name("n"), IntLit(1)))>>)>>,
        <<AssignmentStatement(<<"r", "e", "s", "u", "l", "t">>,
              CallExpression(Name("f"), <<IntLit(4)>>))>>)

\* C10: def f(n): / return n + 1 / result = f(4) is tokenized and parsed
\* without error, into the Program whose lowering is function f of one
\* parameter returning add(n, 1) and a top-level call of f with argument 4.
C10_EndToEnd ==
    (source = E2ESource /\ phase = "done")
        => /\ lexError = NoLexError
           /\ parseError = NoError
           /\ ast = E2EExpected

-----------------------------------------------------------------------------
(* C11: the parser stops at the first error.                                *)

\* C11: the step of parse() in which the first consume() or primary() fails
\* ends the parse: the error carries the line and column of the token the
\* cursor is still on, parse() yields no Program (null), and from then on no
\* further token is parsed (no recovery by synchronize()).
C11_ParserStopsAtFirstError ==
    [][/\ (parseError = NoError /\ parseError' # NoError)
           => /\ phase' = "done"
              /\ ast' = Null
              /\ parseError'.message # ""
              /\ parseError'.line = pPeek(parser_tokens, parser_current').line
              /\ parseError'.column = pPeek(parser_tokens, parser_current').column
       /\ parseError # NoError => UNCHANGED parseVars]_vars

\* A parse that failed with tokens still ahead of the offending one, after
\* some tokens had been parsed.
C11_StoppedBeforeTheEnd ==
    /\ phase = "done"
    /\ parseError # NoError
    /\ ast = Null
    /\ parser_current > 0
    /\ parser_current + 1 < Len(parser_tokens)
    /\ parser_tokens[parser_current + 1].type # "EOF_TOKEN"

-----------------------------------------------------------------------------
(* C12 and C13: malformed indentation.                                      *)

\* The character nextToken() reads next, after skipWhitespace(), is a newline.
NewlineAhead ==
    LET c1 == skipWhitespace(source, Cursor(current, line, column))
    IN  ~isAtEnd(source, c1.current) /\ source[c1.current + 1] = "\n"

\* The number of spaces the line after that newline starts with.
IndentAhead ==
    countSpaces(source,
                skipWhitespace(source, Cursor(current, line, column)).current + 1)

\* 1 + the number of newline characters among the first pos characters.
RECURSIVE LineOf(_, _)
LineOf(src, pos) ==
    IF pos = 0 THEN 1
    ELSE LineOf(src, pos - 1) + (IF src[pos] = "\n" THEN 1 ELSE 0)

\* C12: when the line after a newline starts with a number of spaces that is
\* not a multiple of 4, the call of nextToken() that reads the newline throws
\* "Invalid indentation" with the number of that line: no INDENT, DEDENT or
\* NEWLINE (no token at all) is added for it and no sequence is returned.
C12_OddWidthFails ==
    [][(phase = "lex" /\ NewlineAhead /\ IndentAhead % IndentUnit # 0)
          => /\ phase' = "done"
             /\ tokens' = tokens
             /\ lexError'.msg = "Invalid indentation"
             /\ lexError'.line = LineOf(source, current')
             /\ source[current'] = "\n"]_vars

\* Tokenization has failed on a line of some tokens' distance into the source
\* whose width is not a multiple of the unit.
C12_FailedOnOddWidth ==
    /\ phase = "done"
    /\ lexError.msg = "Invalid indentation"
    /\ tokens # <<>>
    /\ countSpaces(source, current) % IndentUnit # 0

\* C13: when the line after a newline has a level below the top of the
\* indentation stack that is no entry of the stack, the call of nextToken()
\* that reads the newline throws "Invalid indentation" and adds no DEDENT.
C13_DedentMustLand ==
    [][(/\ phase = "lex" /\ NewlineAhead
        /\ IndentAhead % IndentUnit = 0
        /\ indent_stack # <<>>
        /\ IndentAhead \div IndentUnit < back(indent_stack)
        /\ \A i \in 1..Len(indent_stack) :
               indent_stack[i] # IndentAhead \div IndentUnit)
          => /\ phase' = "done"
             /\ tokens' = tokens
             /\ lexError'.msg = "Invalid indentation"]_vars

\* Tokenization has failed on a line of level 1 that followed a line of
\* level 2 entered from level 0.
C13_FailedBetweenLevels ==
    /\ phase = "done"
    /\ lexError.msg = "Invalid indentation"
    /\ countSpaces(source, current) = IndentUnit
    /\ CountType(tokens, "INDENT") = 1
    /\ CountType(tokens, "DEDENT") = 0

-----------------------------------------------------------------------------
(* C14: tokenize() against repeated calls of nextToken().                   *)

IsPrefix(s, t) == Len(s) <= Len(t) /\ \A i \in 1..Len(s) : s[i] = t[i]

\* The tokens collected by the calls of nextToken() made so far agree with
\* the outcome t of tokenize() on the same source.
AgreesWithTokenize(t) ==
    /\ phase = "lex" => IsPrefix(tokens, t.tokens)
    /\ (phase # "lex" /\ lexError = NoLexError)
          => ~t.threw /\ t.tokens = tokens
    /\ lexError # NoLexError
          => /\ t.threw
             /\ t.tokens = tokens
             /\ t.msg = lexError.msg
             /\ t.line = lexError.line

\* C14: the sequence tokenize() returns equals, token by token (type, lexeme,
\* value, line, column), the tokens of repeated calls of nextToken() on a fresh
\* tokenizer up to and including the first EOF_TOKEN; and when a call of
\* nextToken() throws, tokenize() throws the same error after the same tokens.
C14_TokenizeIsRepeatedNextToken == AgreesWithTokenize(tokenize(source))

\* Repeated nextToken() has reached EOF_TOKEN after an indented block.
C14_SteppedToEOF ==
    /\ phase = "lexed"
    /\ Len(tokens) > 3
    /\ CountType(tokens, "INDENT") > 0
    /\ tokens[Len(tokens)].type = "EOF_TOKEN"
    /\ tokenize(source).tokens = tokens

-----------------------------------------------------------------------------
(* C15: the lexemes reproduce the significant text of the source.           *)

\* The lexemes of the tokens that stand for text of the source, in order.
RECURSIVE Lexemes(_)
Lexemes(toks) ==
    IF toks = <<>> THEN <<>>
    ELSE (IF Head(toks).type \in {"INDENT", "DEDENT", "NEWLINE", "EOF_TOKEN"}
          THEN <<>> ELSE Head(toks).lexeme) \o Lexemes(Tail(toks))

\* The source from character pos on without the whitespace between tokens:
\* whitespace is dropped in code, kept inside a string literal (mode is its
\* quote character) and inside a comment (up to the end of the line).
RECURSIVE Significant(_, _, _)
Significant(src, pos, mode) ==
    IF pos > Len(src) THEN <<>>
    ELSE LET ch == src[pos]
         IN  IF mode = "code"
             THEN IF isspace(ch) THEN Significant(src, pos + 1, "code")
                  ELSE <<ch>> \o Significant(src, pos + 1,
                                      IF ch = "#" THEN "comment"
                                      ELSE IF ch = "\"" \/ ch = "'" THEN ch
                                      ELSE "code")
             ELSE IF mode = "comment"
             THEN IF ch = "\n" THEN Significant(src, pos + 1, "code")
                  ELSE <<ch>> \o Significant(src, pos + 1, "comment")
             ELSE IF ch = "\\" /\ pos < Len(src)
             THEN <<ch, src[pos + 1]>> \o Significant(src, pos + 2, mode)
             ELSE <<ch>> \o Significant(src, pos + 1, IF ch = mode THEN "code" ELSE mode)

\* C15: when tokenization succeeds, the lexemes of the tokens other than
\* INDENT, DEDENT, NEWLINE and EOF_TOKEN, concatenated in order, are the source
\* text without the whitespace between tokens: no significant character is
\* dropped, duplicated or reordered.
C15_LexemesReproduceSource ==
    (phase # "lex" /\ lexError = NoLexError)
        => Lexemes(tokens) = Significant(source, 1, "code")

\* A tokenized source of several text tokens with whitespace between them.
C15_WhitespaceRemoved ==
    /\ phase = "lexed"
    /\ Len(tokens) > 3
    /\ Lexemes(tokens) # <<>>
    /\ Len(Lexemes(tokens)) < Len(source)
    /\ \E i \in 1..Len(tokens) : Len(tokens[i].lexeme) > 1

-----------------------------------------------------------------------------
(* C16-C20: the module compile() builds.                                    *)

\* The step lowers a top-level statement.
StatementStep == compiling = "lower" /\ next_statement' = next_statement + 1

\* The step lowers a declaration.
DeclarationStep == compiling = "lower" /\ next_declaration' = next_declaration + 1

\* The step is the end of compile(): the default return and verifyModule.
FinishStep == compiling = "lower" /\ compiling' = "done" /\ result' \in {"true", "false"}

\* The blocks of the declared functions (every function but main) are the
\* same before and after the step.
DeclaredFunctionsUntouched ==
    /\ Len(module') = Len(module)
    /\ \A f \in 1..Len(module) : f # MainFunction => module'[f] = module[f]

\* C16: for a Program with function declarations and top-level statements,
\* the instructions of a top-level statement go into the block of main and
\* into the block of no declared function, and the end of compile() appends
\* the default "ret i32 0" to the block of main exactly when that block has no
\* terminator.
C16_TopLevelIsLoweredIntoMain ==
    [][/\ (StatementStep /\ program.declarations # <<>>)
           => DeclaredFunctionsUntouched
       /\ (FinishStep /\ program.declarations # <<>> /\ program.statements # <<>>)
           => /\ DeclaredFunctionsUntouched
              /\ module'[MainFunction].entry =
                     IF getTerminator(module[MainFunction].entry)
                     THEN module[MainFunction].entry
                     ELSE Append(module[MainFunction].entry,
                                 Instruction("ret", "void", <<getInt32(0)>>, <<>>, ""))
      ]_vars

\* C17: no block ever holds a terminator that is not its last instruction
\* (no second terminator, nothing after a terminator), and when compile()
\* has returned from lowering a Program every block of every function ends
\* in its one terminator.
C17_OneTerminatorLast ==
    /\ \A f \in 1..Len(module) :
           \A i \in 1..Len(module[f].entry) :
               isTerminator(module[f].entry[i]) => i = Len(module[f].entry)
    /\ (compiling = "done" /\ ~isNull(program) /\ result \in {"true", "false"})
           => \A f \in 1..Len(module) :
                  module[f].defined => getTerminator(module[f].entry)

\* C18: the names a function enters into the symbol table (its parameters,
\* the names its body assigns) are gone when its lowering is done: the table
\* that later functions and the top-level statements look identifiers up in
\* is the one from before the function, so none of them resolves to a slot of
\* that function.
C18_FreshScopePerFunction ==
    [][DeclarationStep => variables' = variables]_vars

\* The functions the module knows under the name and with the arity of the
\* call: printf takes its format and any further arguments.
KnownCallee(m, expr) ==
    /\ expr.callee.kind = "Identifier"
    /\ \E f \in 1..Len(m) :
           /\ m[f].name = expr.callee.name
           /\ IF m[f].name = PrintfName
              THEN Len(expr.arguments) >= m[f].params
              ELSE Len(expr.arguments) = m[f].params

\* The statement is the call of a name that is no function of the module,
\* or of a function with another number of parameters.
IsBadCall(m, stmt) ==
    /\ stmt.kind = "ExpressionStatement"
    /\ stmt.expression.kind = "Call"
    /\ stmt.expression.callee.kind = "Identifier"
    /\ ~KnownCallee(m, stmt.expression)

RECURSIVE CountOp(_, _)
CountOp(bb, op) ==
    IF bb = <<>> THEN 0
    ELSE (IF Head(bb).op = op THEN 1 ELSE 0) + CountOp(Tail(bb), op)

RECURSIVE CountInModule(_, _)
CountInModule(m, op) ==
    IF m = <<>> THEN 0 ELSE CountOp(Head(m).entry, op) + CountInModule(Tail(m), op)

\* C19: lowering the call of an unknown callee, or of a function with
\* another number of parameters, is a code-generation error: compile() stops
\* there, reports it and returns false, and no call instruction is built.
C19_BadCallIsAnError ==
    [][(StatementStep /\ IsBadCall(module, program.statements[next_statement]))
          => /\ compiling' = "done"
             /\ result' = "false"
             /\ compileError' # ""
             /\ CountInModule(module', "call") = CountInModule(module, "call")]_vars

\* The module holds a store of a value into a slot allocated for another type.
MismatchedStore(m) ==
    \E f \in 1..Len(m) : \E i \in 1..Len(m[f].entry) :
        /\ m[f].entry[i].op = "store"
        /\ m[f].entry[i].operands[2].k = "inst"
        /\ m[m[f].entry[i].operands[2].fn].entry[m[f].entry[i].operands[2].idx].allocated
               # m[f].entry[i].operands[1].type

\* C20: assigning to a name that has a slot a value of another IR type makes
\* compile() fail with a code-generation error: when compile() is done with a
\* Program, a module that holds such a store is one it has reported an error
\* on and returned false for.
C20_TypeChangeIsAnError ==
    (compiling = "done" /\ MismatchedStore(module))
        => (result = "false" /\ compileError # "")

-----------------------------------------------------------------------------
(* C21 and C22: control flow in the lowered code.                           *)

\* The statement assigns the value of "a and b" or of "a or b".
IsLogicalAssignment(stmt) ==
    /\ stmt.kind = "Assignment"
    /\ stmt.value.kind = "Binary"
    /\ stmt.value.op \in {"AND", "OR"}

\* The instructions the step appends to the block the builder stood on.
Appended ==
    SubSeq(module'[insertPoint].entry, Len(module[insertPoint].entry) + 1,
           Len(module'[insertPoint].entry))

\* C21: lowering y = a and b (or y = a or b, a and b variables) evaluates a in
\* the current block and ends the block with a conditional branch; the load
\* of b is not in that block, where it would run unconditionally; and the
\* expression yields a value, which is stored for y.
C21_LogicalOperatorsShortCircuit ==
    [][(StatementStep /\ IsLogicalAssignment(program.statements[next_statement]))
          => /\ CountOp(Appended, "br") = 1
             /\ CountOp(Appended, "load") = 1
             /\ find(variables', program.statements[next_statement].name) # {}]_vars

\* C22: lowering a while statement builds a header, a body and an exit block:
\* the module gains the conditional branch of the header and the branch of
\* the body back to the header, and the current block ends in the branch
\* that enters the header.
C22_WhileBuildsALoop ==
    [][(StatementStep /\ program.statements[next_statement].kind = "While")
          => /\ CountInModule(module', "br") >= CountInModule(module, "br") + 3
             /\ CountOp(Appended, "br") = 1]_vars

-----------------------------------------------------------------------------
(* C23: the token a newline stands for.                                     *)

-----------------------------------------------------------------------------
(* C24: the lookahead of statement().                                       *)

\* The step of program() ends as the outcome r of a statement does: its node
\* pushed and the cursor where it stopped, or its error.
EndsAs(r) ==
    /\ parser_current' = r.cur
    /\ IF r.ok THEN statements' = Append(statements, r.node) /\ parseError' = NoError
       ELSE parseError' = r.err

\* assignment(name, value) for the identifier at cur, "=" and the expression
\* that starts after them.
AssignmentAt(toks, cur) ==
    Bind(expression(toks, cur + 2), LAMBDA value :
        Ok(AssignmentStatement(toks[cur + 1].lexeme, value.node), value.cur))

\* C24: a statement that starts at an IDENTIFIER is, when "=" follows, the
\* assignment of the expression after "=" to that name, and otherwise the
\* expression statement whose expression starts at the same identifier: the
\* lookahead leaves the cursor on the identifier, no token is skipped or
\* read twice.
C24_LookaheadRestoresTheCursor ==
    [][(/\ phase = "parse"
        /\ ~pIsAtEnd(parser_tokens, parser_current)
        /\ parser_tokens[parser_current + 1].type = "IDENTIFIER")
          => IF /\ parser_current + 2 <= Len(parser_tokens)
                /\ parser_tokens[parser_current + 2].type = "ASSIGN"
             THEN EndsAs(AssignmentAt(parser_tokens, parser_current))
             ELSE EndsAs(expressionStatement(parser_tokens, parser_current))]_vars

\* program() has pushed an expression statement that began at an identifier
\* and went on past it.
C24_ExpressionFromIdentifier ==
    /\ phase = "parse"
    /\ statements # <<>>
    /\ statements[Len(statements)].kind = "ExpressionStatement"
    /\ statements[Len(statements)].expression.kind = "Binary"
    /\ statements[Len(statements)].expression.left.kind = "Identifier"
    /\ parser_tokens[1].type = "IDENTIFIER"

-----------------------------------------------------------------------------
(* C25: associativity of the binary levels below power.                     *)

\* The token types of each binary precedence level other than power.
LeftAssociativeLevels ==
    {{"OR"}, {"AND"}, {"EQUAL", "NOT_EQUAL"},
     {"LESS", "LESS_EQUAL", "GREATER", "GREATER_EQUAL"}, Additive, Multiplicative}

-----------------------------------------------------------------------------
(* C26: identifiers in the code generator.                                  *)

\* The step lowers the top-level statement "return x".
ReturnsIdentifier ==
    /\ StatementStep
    /\ program.statements[next_statement].kind = "Return"
    /\ program.statements[next_statement].value.kind = "Identifier"

\* The slot variables records for the identifier of that statement.
RecordedSlot ==
    variables[CHOOSE i \in find(variables,
                                program.statements[next_statement].value.name) : TRUE].slot

\* C26: lowering "return x" with x not in the symbol table is no error: x is
\* the constant i64 0, no instruction is built for it (the block gains the
\* return of that constant alone), the symbol table is unchanged and
\* compile() goes on; with x in the symbol table x is a load of i64 from the
\* slot recorded for it, and that load is what is returned.
C26_UndefinedIdentifierIsZero ==
    [][ReturnsIdentifier
          => IF find(variables, program.statements[next_statement].value.name) = {}
             THEN /\ Appended = <<Instruction("ret", "void", <<getInt64(0)>>, <<>>, "")>>
                  /\ variables' = variables
                  /\ compiling' = "lower"
                  /\ result' = "none"
                  /\ compileError' = ""
             ELSE result' # "aborted"
                    => /\ Len(Appended) = 2
                       /\ Appended[1] = Instruction("load", "i64", <<RecordedSlot>>,
                                                    <<>>, "")
                       /\ Appended[2].op = "ret"
                       /\ Appended[2].operands[1].k = "inst"
                       /\ Appended[2].operands[1].idx = Len(module[insertPoint].entry) + 1
                       /\ variables' = variables]_vars

\* "return x" has been lowered with no x in the symbol table, and compile()
\* is about to lower the statement after it.
C26_ReturnedTheDefault ==
    /\ compiling = "lower"
    /\ next_statement = 2
    /\ Len(program.statements) = 2
    /\ program.statements[1] = ReturnX
    /\ variables = <<>>
    /\ module[insertPoint].entry # <<>>
    /\ module[insertPoint].entry[Len(module[insertPoint].entry)].operands = <<getInt64(0)>>

-----------------------------------------------------------------------------
(* C27 and C28: blocks in the token sequence.                               *)

\* C27: INDENT and DEDENT are balanced: the tokens collected so far (every
\* prefix of what tokenize() returns) hold no more DEDENT than INDENT tokens,
\* and the sequence that ends in EOF_TOKEN holds as many of the one as of the
\* other: a block still open at the end of the input is closed before EOF.
C27_IndentsAndDedentsBalance ==
    /\ CountType(tokens, "DEDENT") <= CountType(tokens, "INDENT")
    /\ (phase # "lex" /\ lexError = NoLexError)
          => CountType(tokens, "DEDENT") = CountType(tokens, "INDENT")

\* The cursor position just after the newline nextToken() reads next.
AfterNewline == skipWhitespace(source, Cursor(current, line, column)).current + 1

\* The newline ahead ends a line of an indented block and is followed by a
\* blank line, after which the block goes on at the same level.
BlankLineInBlock ==
    /\ NewlineAhead
    /\ back(indent_stack) > 0
    /\ AfterNewline + 1 < Len(source)
    /\ source[AfterNewline + 1] = "\n"
    /\ countSpaces(source, AfterNewline + 1) = IndentUnit * back(indent_stack)
    /\ AfterNewline + 1 + IndentUnit * back(indent_stack) < Len(source)
    /\ source[AfterNewline + 2 + IndentUnit * back(indent_stack)] \notin {" ", "\n"}

\* C28: the newline before a blank line between two lines of one indented
\* block leaves the indentation stack as it is and yields no INDENT and no
\* DEDENT token.
C28_BlankLineKeepsTheBlock ==
    [][(phase = "lex" /\ BlankLineInBlock)
          => /\ indent_stack' = indent_stack
             /\ lexError' = NoLexError
             /\ tokens'[Len(tokens')].type \notin {"INDENT", "DEDENT"}]_vars

-----------------------------------------------------------------------------
(* C29: comments and the parser.                                            *)

\* C29: comments do not affect the parse: the parser skips COMMENT tokens
\* wherever they occur, so no parse ends in an error raised at a COMMENT
\* token.
C29_NoErrorAtAComment ==
    (phase = "done" /\ parseError # NoError)
        => pPeek(parser_tokens, parser_current).type # "COMMENT"

-----------------------------------------------------------------------------
(* C30: continue in the debugger.                                           *)

\* The debugger is stopped on an enabled breakpoint of the loaded file.
StoppedOnBreakpoint ==
    /\ phase = "debug"
    /\ isRunning
    /\ currentLine \in 1..LastLine
    /\ enabledBreakpointAt(breakpoints, currentFile, currentLine)

\* The lines after the current one that hold an enabled breakpoint.
BreakpointsAhead ==
    {l \in (currentLine + 1)..LastLine :
        enabledBreakpointAt(breakpoints, currentFile, l)}

\* C30: a continue command given while the debugger is stopped on an enabled
\* breakpoint at line b makes progress: it stops on the next enabled
\* breakpoint after b, or, there being none, runs to the end, reports that
\* the program finished and resets currentLine to 0; it never stops on line
\* b again.
C30_ContinueMakesProgress ==
    [][(StoppedOnBreakpoint /\ output' # <<>>
            /\ output'[1] = "Continuing execution...")
          => /\ currentLine' # currentLine
             /\ IF BreakpointsAhead # {}
                THEN /\ currentLine' \in BreakpointsAhead
                     /\ \A l \in BreakpointsAhead : currentLine' <= l
                ELSE /\ currentLine' = 0
                     /\ output'[Len(output')] = "Program finished execution"]_vars

====
